---- MODULE Spec2Model ----
(***************************************************************************)
(* Kiro activity analyzer: the metric aggregation engine                   *)
(* (services/analyzer_service.py), the parsers (parsers/*.py) and the      *)
(* metric calculators (analyzers/*.py), as state machines.                 *)
(*                                                                         *)
(* Time is counted in ticks, TicksPerHour of them to the hour, from the    *)
(* start of the first day the model covers; a timestamp is its wall-clock  *)
(* tick plus an optional UTC offset.  Metric values are tagged: a scalar   *)
(* (a reduced fraction n/den), a list, or a dict from sub-keys to          *)
(* sub-values.                                                             *)
(***************************************************************************)
EXTENDS Integers, Sequences, FiniteSets, TLC

VARIABLES
    calculators,      \* AnalyzerService.calculators, fixed at construction
    entries,          \* the entries argument of analyze
    analysis_period,  \* the (start, end) argument of analyze
    aggregated,       \* the in-progress aggregate of analyze
    idx,              \* position of analyze's for loop (1-based)
    pc,               \* position of analyze: idle, loop, done, raised
    metrics,          \* the ProductivityMetrics analyze returned
    log_entries,      \* the entries given to filter_by_date_range
    start_date,       \* its start_date argument
    end_date,         \* its end_date argument
    filtered_entries, \* the list it returned
    cli_pc,           \* position of the caller: parsed, filtered, analyzing, exit
    json_file,        \* the lines of the file JSONLogParser.parse reads
    line_number,      \* parse's line_number
    yielded,          \* the entries parse has yielded so far
    json_pc,          \* position of parse: idle, reading, done, raised
    kiro_line,        \* the line given to KiroLogParser._parse_kiro_log_line
    kiro_entry,       \* what it returned
    kiro_pc,          \* idle, line, entry, none, raised
    parsers,          \* ParserRegistry._parsers
    lookup,           \* the last get_parser call: its path and its outcome
    file_paths,       \* the file_paths argument of parse_files
    all_entries,      \* parse_files' all_entries
    path_idx,         \* position of parse_files' for loop (1-based)
    svc_pc,           \* position of the ParserService: idle, new, ready, loop, done
    file_path,        \* the file_path argument of parse_file
    file_parser,      \* parse_file's parser
    stream,           \* the lines parser.parse(file_path) has not read yet
    file_entries,     \* parse_file's entries
    error_count,      \* parse_file's error_count
    file_exc,         \* the exception parse_file raised, "none" when none
    local_tz,         \* the utc offset of the process's local time zone
    file_pc,          \* position of parse_file: idle, parsing, returned, raised
    patterns,         \* PlainTextLogParser.patterns
    text_file,        \* the lines of the file PlainTextLogParser.parse reads
    text_line_number, \* parse's line_number
    tried,            \* the patterns matched against the last line, in order
    text_yielded,     \* the entries parse has yielded so far
    text_pc,          \* position of parse: idle, reading, done, raised
    settings,         \* the content of the file at ModelUsageCalculator.settings_path
    returned          \* what the calls of calculate(entries) made so far returned

analyzeVars == <<calculators, entries, analysis_period, aggregated, idx, pc, metrics>>
filterVars == <<log_entries, start_date, end_date, filtered_entries, cli_pc>>

jsonVars == <<json_file, line_number, yielded, json_pc>>
kiroVars == <<kiro_line, kiro_entry, kiro_pc>>
registryVars == <<parsers, lookup>>
serviceVars == <<file_paths, all_entries, path_idx, svc_pc>>
fileVars ==
    <<file_path, file_parser, stream, file_entries, error_count, file_exc, local_tz, file_pc>>
textVars == <<patterns, text_file, text_line_number, tried, text_yielded, text_pc>>
envVars == <<settings, returned>>
parserVars == <<jsonVars, kiroVars, registryVars, serviceVars, fileVars, textVars, envVars>>

vars == <<analyzeVars, filterVars, parserVars>>

\* no parser, registry or parser service is in use
JsonIdle ==
    /\ json_file = <<>>
    /\ line_number = 0
    /\ yielded = <<>>
    /\ json_pc = "idle"

KiroIdle ==
    /\ kiro_line = <<>>
    /\ kiro_entry = <<>>
    /\ kiro_pc = "idle"

RegistryIdle ==
    /\ parsers = <<>>
    /\ lookup = <<>>

ServiceIdle ==
    /\ file_paths = <<>>
    /\ all_entries = <<>>
    /\ path_idx = 0
    /\ svc_pc = "idle"

FileIdle ==
    /\ file_path = <<>>
    /\ file_parser = "None"
    /\ stream = <<>>
    /\ file_entries = <<>>
    /\ error_count = 0
    /\ file_exc = "none"
    /\ local_tz = 0
    /\ file_pc = "idle"

TextIdle ==
    /\ patterns = <<>>
    /\ text_file = <<>>
    /\ text_line_number = 0
    /\ tried = <<>>
    /\ text_yielded = <<>>
    /\ text_pc = "idle"

EnvIdle ==
    /\ settings = [kind |-> "absent"]
    /\ returned = <<>>

ParserIdle ==
    JsonIdle /\ KiroIdle /\ RegistryIdle /\ ServiceIdle /\ FileIdle /\ TextIdle /\ EnvIdle

(***************************************************************************)
(* Bounds                                                                  *)
(***************************************************************************)
MaxCalcs == 3
MaxEntries == 2
MaxTime == 2

(***************************************************************************)
(* Values                                                                  *)
(***************************************************************************)
\* A dict sub-value: a number, or a value Python cannot add (None).
Num(v) == [num |-> TRUE, v |-> v]
NonNum == [num |-> FALSE, v |-> 0]

EmptyDict == [s \in {} |-> Num(0)]
EmptyMap == [k \in {} |-> 0]

Scalar(n) == [t |-> "scalar", n |-> n, den |-> 1, l |-> <<>>, d |-> EmptyDict]
ListVal(l) == [t |-> "list", n |-> 0, den |-> 1, l |-> l, d |-> EmptyDict]
DictVal(d) == [t |-> "dict", n |-> 0, den |-> 1, l |-> <<>>, d |-> d]

IsDict(v) == v.t = "dict"

\* sequences over S of length at most n
SeqsUpTo(S, n) == UNION {[1..m -> S] : m \in 0..n}

\* models.py: the twelve metric fields of ProductivityMetrics
DeclaredFields ==
    {"total_requests", "total_conversations", "avg_response_time_seconds",
     "fastest_response_time_seconds", "slowest_response_time_seconds",
     "total_characters_processed", "lines_of_code_generated",
     "lines_by_language", "success_rate_percent", "tool_usage",
     "peak_activity_periods", "daily_breakdown"}

KeyedCounterFields == {"lines_by_language", "tool_usage", "daily_breakdown"}

\* analyze: the default of each field, as seeded and as given to .get()
Default(k) ==
    IF k \in KeyedCounterFields THEN DictVal(EmptyDict)
    ELSE IF k = "peak_activity_periods" THEN ListVal(<<>>)
    ELSE Scalar(0)

\* analyze: "Initialize aggregated results with defaults"
SeedAggregated == [k \in DeclaredFields |-> Default(k)]

\* a datetime: its wall-clock tick, and its UTC offset when it is timezone-aware
Naive(t) == [wall |-> t, aware |-> FALSE, utcoffset |-> 0]
Aware(t, off) == [wall |-> t, aware |-> TRUE, utcoffset |-> off]

\* the UTC offsets of timestamps and of the local zone, in ticks
Offsets == {0, 1}

\* a log entry (models.py LogEntry)
LogEntry(ts, ty, data) == [timestamp |-> ts, event_type |-> ty, data |-> data]

(***************************************************************************)
(* Calculators                                                             *)
(***************************************************************************)
\* RequestCountCalculator.calculate
RECURSIVE CountType(_, _)
CountType(es, ty) ==
    IF es = <<>> THEN 0
    ELSE (IF Head(es).event_type = ty THEN 1 ELSE 0) + CountType(Tail(es), ty)

RequestCountCalculate(es) ==
    [total_requests |-> Scalar(CountType(es, "request")),
     total_conversations |-> Scalar(CountType(es, "conversation_start"))]

(***************************************************************************)
(* Values of LogEntry.data                                                 *)
(***************************************************************************)
\* an int, a str (its text and length), None, a bool, a list (unhashable),
\* or the float infinity (json.loads gives it for 1e999 and for Infinity)
IntV(n) == [k |-> "int", n |-> n, s |-> ""]
StrV(s, len) == [k |-> "str", n |-> len, s |-> s]
NoneV == [k |-> "none", n |-> 0, s |-> ""]
BoolV(b) == [k |-> "bool", n |-> IF b THEN 1 ELSE 0, s |-> ""]
ListV(len) == [k |-> "list", n |-> len, s |-> ""]
InfV == [k |-> "inf", n |-> 1, s |-> ""]

\* data.get(key, default)
DataGet(data, key, default) == IF key \in DOMAIN data THEN data[key] ELSE default

\* bool(v)
Truthy(v) == IF v.k = "none" THEN FALSE ELSE v.n # 0

\* the texts float() and int() accept, with their values
NumericText == ("2" :> 2) @@ ("0" :> 0)

\* float(v) / int(v) succeeds (no ValueError, no TypeError), and its value
Converts(v) == v.k \in {"int", "bool"} \/ (v.k = "str" /\ v.s \in DOMAIN NumericText)
Converted(v) == IF v.k = "str" THEN NumericText[v.s] ELSE v.n

\* int(v) raises OverflowError: cannot convert float infinity to integer
Overflows(v) == v.k = "inf"

\* hash(v) succeeds, and the dict key it gives
Hashable(v) == v.k \notin {"list", "dict"}
DictKey(v) ==
    IF v.k = "str" THEN v.s
    ELSE IF v.k = "none" THEN "None"
    ELSE IF v.k = "inf" THEN "inf"
    ELSE ToString(v.n)

RECURSIVE GCD(_, _)
GCD(a, b) == IF b = 0 THEN a ELSE GCD(b, a % b)

\* the float a / b, as a reduced fraction (b > 0, a >= 0)
Frac(a, b) ==
    LET g == GCD(a, b)
    IN [t |-> "scalar", n |-> a \div g, den |-> b \div g, l |-> <<>>, d |-> EmptyDict]

\* d[key] = d.get(key, 0) + n
Bump(d, key, n) ==
    [s \in DOMAIN d \cup {key} |->
        IF s = key THEN Num((IF key \in DOMAIN d THEN d[key].v ELSE 0) + n) ELSE d[s]]

(***************************************************************************)
(* Python floats: binary floating point, rounded to nearest, ties to even, *)
(* with a significand of FloatBits bits (53 in the program's doubles);     *)
(* a float is held as the reduced fraction n / den it is equal to          *)
(***************************************************************************)
FloatBits == 3

RECURSIVE Pow2(_)
Pow2(k) == IF k = 0 THEN 1 ELSE 2 * Pow2(k - 1)

\* the unit in the last place of the float nearest a / b (a > 0, b > 0), as
\* the pair <<un, ud>> of the fraction un / ud
RECURSIVE Ulp(_, _, _, _)
Ulp(a, b, un, ud) ==
    LET m == (a * ud) \div (b * un) IN
    IF m >= Pow2(FloatBits) THEN Ulp(a, b, un * 2, ud)
    ELSE IF m < Pow2(FloatBits - 1) THEN Ulp(a, b, un, ud * 2)
    ELSE <<un, ud>>

\* the float nearest the fraction a / b (a >= 0, b > 0); inf is held as 1 / 0
RoundFloat(a, b) ==
    IF b = 0 THEN [n |-> 1, den |-> 0]
    ELSE IF a = 0 THEN [n |-> 0, den |-> 1]
    ELSE LET u == Ulp(a, b, 1, 1)
             N == a * u[2]
             D == b * u[1]
             m == N \div D
             r == N % D
             up == 2 * r > D \/ (2 * r = D /\ m % 2 = 1)
             k == IF up THEN m + 1 ELSE m
             g == GCD(k * u[1], u[2])
         IN  [n |-> (k * u[1]) \div g, den |-> u[2] \div g]

\* x + y and x / k of floats, k a positive int
FloatAdd(x, y) == RoundFloat(x.n * y.den + y.n * x.den, x.den * y.den)
FloatDiv(x, k) == RoundFloat(x.n, x.den * k)
FloatLeq(x, y) == x.n * y.den <= y.n * x.den

\* sum(q): 0 + q[1] + ... + q[n], left to right
RECURSIVE FloatSum(_)
FloatSum(q) ==
    IF q = <<>> THEN [n |-> 0, den |-> 1]
    ELSE FloatAdd(FloatSum(SubSeq(q, 1, Len(q) - 1)), q[Len(q)])

FloatMin(q) == CHOOSE x \in {q[i] : i \in 1..Len(q)} : \A i \in 1..Len(q) : FloatLeq(x, q[i])
FloatMax(q) == CHOOSE x \in {q[i] : i \in 1..Len(q)} : \A i \in 1..Len(q) : FloatLeq(q[i], x)

\* the texts float() accepts that int() does not, with the fraction written
FloatText == ("0.1" :> <<1, 10>>) @@ ("0.7" :> <<7, 10>>)

\* float(v) succeeds (no ValueError, no TypeError), and its value
FloatConverts(v) ==
    Converts(v) \/ (v.k = "str" /\ v.s \in DOMAIN FloatText) \/ v.k = "inf"
FloatOf(v) ==
    IF v.k = "inf" THEN RoundFloat(1, 0)
    ELSE IF v.k = "str" /\ v.s \in DOMAIN FloatText
    THEN RoundFloat(FloatText[v.s][1], FloatText[v.s][2])
    ELSE IF Converted(v) < 0
    THEN [n |-> 0 - RoundFloat(0 - Converted(v), 1).n, den |-> RoundFloat(0 - Converted(v), 1).den]
    ELSE RoundFloat(Converted(v), 1)

\* a float as a metric value
FloatValue(x) == [t |-> "scalar", n |-> x.n, den |-> x.den, l |-> <<>>, d |-> EmptyDict]

(***************************************************************************)
(* ResponseTimeCalculator                                                  *)
(***************************************************************************)
\* the loop body: the sample the entry adds to response_times, if any
ResponseSample(data) ==
    IF "response_time" \in DOMAIN data
    THEN IF FloatConverts(data["response_time"])
            /\ FloatOf(data["response_time"]).n >= 0
         THEN <<FloatOf(data["response_time"])>> ELSE <<>>
    ELSE IF "response_time_seconds" \in DOMAIN data
    THEN IF FloatConverts(data["response_time_seconds"])
            /\ FloatOf(data["response_time_seconds"]).n >= 0
         THEN <<FloatOf(data["response_time_seconds"])>> ELSE <<>>
    ELSE <<>>

RECURSIVE ResponseTimes(_)
ResponseTimes(es) ==
    IF es = <<>> THEN <<>> ELSE ResponseSample(Head(es).data) \o ResponseTimes(Tail(es))

ResponseTimeCalculate(es) ==
    LET response_times == ResponseTimes(es) IN
    IF response_times # <<>>
    THEN [avg_response_time_seconds |->
              FloatValue(FloatDiv(FloatSum(response_times), Len(response_times))),
          fastest_response_time_seconds |-> FloatValue(FloatMin(response_times)),
          slowest_response_time_seconds |-> FloatValue(FloatMax(response_times))]
    ELSE [avg_response_time_seconds |-> Scalar(0),
          fastest_response_time_seconds |-> Scalar(0),
          slowest_response_time_seconds |-> Scalar(0)]

(***************************************************************************)
(* CodeGenerationCalculator                                                *)
(***************************************************************************)
\* the loop body, on the accumulators
CodeGenStep(acc, entry) ==
    LET data == entry.data
        counts == "lines_generated" \in DOMAIN data
                  /\ Converts(data["lines_generated"])
                  /\ Converted(data["lines_generated"]) > 0
        lines == Converted(data["lines_generated"])
        language == DataGet(data, "language", StrV("unknown", 7))
        status == DataGet(data, "status", StrV("", 0))
        ok == status = StrV("success", 7) \/ Truthy(DataGet(data, "success", BoolV(FALSE)))
        ko == status = StrV("failed", 6) \/ status = StrV("error", 5)
              \/ Truthy(DataGet(data, "failed", BoolV(FALSE)))
        isreq == entry.event_type = "request"
    IN [total_lines |-> acc.total_lines + (IF counts THEN lines ELSE 0),
        \* an unhashable language raises TypeError after total_lines was
        \* added; the except clause passes
        lines_by_language |->
            IF counts /\ Hashable(language)
            THEN Bump(acc.lines_by_language, DictKey(language), lines)
            ELSE acc.lines_by_language,
        successful_requests |-> acc.successful_requests + (IF isreq /\ ok THEN 1 ELSE 0),
        failed_requests |-> acc.failed_requests + (IF isreq /\ ~ok /\ ko THEN 1 ELSE 0)]

\* int(entry.data['lines_generated']) raises OverflowError, which the
\* except clause does not catch
CodeGenerationRaises(es) ==
    \E i \in 1..Len(es) :
        "lines_generated" \in DOMAIN es[i].data /\ Overflows(es[i].data["lines_generated"])

RECURSIVE CodeGenLoop(_, _)
CodeGenLoop(acc, es) ==
    IF es = <<>> THEN acc ELSE CodeGenLoop(CodeGenStep(acc, Head(es)), Tail(es))

CodeGenerationCalculate(es) ==
    LET acc == CodeGenLoop([total_lines |-> 0, lines_by_language |-> EmptyDict,
                            successful_requests |-> 0, failed_requests |-> 0], es)
        total_tracked_requests == acc.successful_requests + acc.failed_requests
    IN [lines_of_code_generated |-> Scalar(acc.total_lines),
        lines_by_language |-> DictVal(acc.lines_by_language),
        success_rate_percent |->
            IF total_tracked_requests > 0
            THEN Frac(acc.successful_requests * 100, total_tracked_requests)
            ELSE Scalar(0)]

(***************************************************************************)
(* CharacterCountCalculator                                                *)
(***************************************************************************)
PositiveCount(v) == IF Converts(v) /\ Converted(v) > 0 THEN Converted(v) ELSE 0

CharacterContribution(data) ==
    IF "character_count" \in DOMAIN data THEN PositiveCount(data["character_count"])
    ELSE IF "characters" \in DOMAIN data THEN PositiveCount(data["characters"])
    ELSE IF "chars_processed" \in DOMAIN data THEN PositiveCount(data["chars_processed"])
    ELSE IF "content" \in DOMAIN data /\ data["content"].k = "str" THEN data["content"].n
    ELSE IF "request" \in DOMAIN data /\ data["request"].k = "str" THEN data["request"].n
    ELSE 0

\* int(...) of the first alias present raises OverflowError, which the
\* except clause does not catch
CharacterCountRaises(es) ==
    \E i \in 1..Len(es) :
        LET data == es[i].data IN
        IF "character_count" \in DOMAIN data THEN Overflows(data["character_count"])
        ELSE IF "characters" \in DOMAIN data THEN Overflows(data["characters"])
        ELSE "chars_processed" \in DOMAIN data /\ Overflows(data["chars_processed"])

RECURSIVE TotalCharacters(_)
TotalCharacters(es) ==
    IF es = <<>> THEN 0 ELSE CharacterContribution(Head(es).data) + TotalCharacters(Tail(es))

CharacterCountCalculate(es) ==
    [total_characters_processed |-> Scalar(TotalCharacters(es))]

(***************************************************************************)
(* ToolUsageCalculator                                                     *)
(***************************************************************************)
\* the tool name the entry is tallied under; NoneV when it adds nothing
ToolNameOf(entry) ==
    LET data == entry.data IN
    IF entry.event_type = "tool_invocation"
    THEN IF Truthy(DataGet(data, "tool_name", NoneV))
         THEN data["tool_name"] ELSE DataGet(data, "tool", NoneV)
    ELSE IF "tool" \in DOMAIN data THEN data["tool"]
    ELSE NoneV

\* tool_usage[tool_name] = ... raises TypeError on an unhashable name
ToolUsageRaises(es) ==
    \E i \in 1..Len(es) : Truthy(ToolNameOf(es[i])) /\ ~Hashable(ToolNameOf(es[i]))

RECURSIVE ToolTally(_, _)
ToolTally(tool_usage, es) ==
    IF es = <<>> THEN tool_usage
    ELSE LET tool_name == ToolNameOf(Head(es)) IN
         ToolTally(IF Truthy(tool_name) /\ Hashable(tool_name)
                   THEN Bump(tool_usage, DictKey(tool_name), 1) ELSE tool_usage,
                   Tail(es))

ToolUsageCalculate(es) == [tool_usage |-> DictVal(ToolTally(EmptyDict, es))]

(***************************************************************************)
(* ActivityPatternCalculator                                               *)
(***************************************************************************)
TicksPerHour == 2
HoursPerDay == 24
WindowHours == 2
TopN == 3

\* the instant of a datetime: aware datetimes compare by it
Instant(dt) == dt.wall - dt.utcoffset

\* comparing a naive with an aware datetime raises TypeError
MixedAwareness(es) ==
    \E i, j \in 1..Len(es) : es[i].timestamp.aware # es[j].timestamp.aware

\* entry.timestamp.strftime('%Y-%m-%d'): the calendar day of the wall clock
DateStr(dt) == ToString(dt.wall \div (HoursPerDay * TicksPerHour))

RECURSIVE DailyBreakdown(_, _)
DailyBreakdown(daily_counts, es) ==
    IF es = <<>> THEN daily_counts
    ELSE DailyBreakdown(Bump(daily_counts, DateStr(Head(es).timestamp), 1), Tail(es))

\* sorted(entries, key=timestamp)[0] and [-1]: the sort is stable
MinTime(es) ==
    LET i == CHOOSE i \in 1..Len(es) :
                 /\ \A j \in 1..Len(es) : Instant(es[i].timestamp) <= Instant(es[j].timestamp)
                 /\ \A j \in 1..(i - 1) : Instant(es[j].timestamp) # Instant(es[i].timestamp)
    IN es[i].timestamp
MaxTimeOf(es) ==
    LET i == CHOOSE i \in 1..Len(es) :
                 /\ \A j \in 1..Len(es) : Instant(es[j].timestamp) <= Instant(es[i].timestamp)
                 /\ \A j \in (i + 1)..Len(es) : Instant(es[j].timestamp) # Instant(es[i].timestamp)
    IN es[i].timestamp

\* dt.replace(minute=0, second=0, microsecond=0) and dt + timedelta
FloorHour(dt) == [dt EXCEPT !.wall = (dt.wall \div TicksPerHour) * TicksPerHour]
PlusHours(dt, h) == [dt EXCEPT !.wall = dt.wall + h * TicksPerHour]

CountIn(es, from, to) ==
    Cardinality({i \in 1..Len(es) :
        Instant(from) <= Instant(es[i].timestamp) /\ Instant(es[i].timestamp) < Instant(to)})

\* the while loop: windows of WindowHours at one-hour steps, those with entries
RECURSIVE WindowCounts(_, _, _)
WindowCounts(es, current_time, max_time) ==
    IF Instant(current_time) > Instant(max_time) THEN <<>>
    ELSE LET window_end == PlusHours(current_time, WindowHours)
             count == CountIn(es, current_time, window_end)
         IN (IF count > 0
             THEN <<[start |-> current_time, end |-> window_end, count |-> count]>>
             ELSE <<>>)
            \o WindowCounts(es, PlusHours(current_time, 1), max_time)

\* window_counts.sort(key=count, reverse=True): stable, ties keep scan order
RECURSIVE SortByCountDesc(_)
SortByCountDesc(w) ==
    IF w = <<>> THEN <<>>
    ELSE LET i == CHOOSE i \in 1..Len(w) :
                      /\ \A j \in 1..Len(w) : w[j].count <= w[i].count
                      /\ \A j \in 1..(i - 1) : w[j].count < w[i].count
         IN <<w[i]>> \o SortByCountDesc(SubSeq(w, 1, i - 1) \o SubSeq(w, i + 1, Len(w)))

IdentifyPeakPeriods(es) ==
    LET sorted == SortByCountDesc(WindowCounts(es, FloorHour(MinTime(es)), MaxTimeOf(es)))
        top == SubSeq(sorted, 1, IF Len(sorted) < TopN THEN Len(sorted) ELSE TopN)
    IN [i \in 1..Len(top) |-> <<top[i].start, top[i].end>>]

\* sorted() compares timestamps: it raises on naive mixed with aware
ActivityPatternRaises(es) == MixedAwareness(es)

ActivityPatternCalculate(es) ==
    IF es = <<>>
    THEN [peak_activity_periods |-> ListVal(<<>>), daily_breakdown |-> DictVal(EmptyDict)]
    ELSE [peak_activity_periods |-> ListVal(IdentifyPeakPeriods(es)),
          daily_breakdown |-> DictVal(DailyBreakdown(EmptyDict, es))]

(***************************************************************************)
(* The calculators of a list                                               *)
(***************************************************************************)
\* A calculator of the list: a standard calculator (by class name) or a test
\* double that returns a fixed mapping or raises.  For a double that raises,
\* result is what it had built before raising; calculate never returns it.
Stub(name, result) == [name |-> name, raises |-> FALSE, exc |-> "", result |-> result]
Failing(name, exc, result) == [name |-> name, raises |-> TRUE, exc |-> exc, result |-> result]

StandardNames ==
    {"RequestCountCalculator", "ResponseTimeCalculator", "CodeGenerationCalculator",
     "CharacterCountCalculator", "ToolUsageCalculator", "ActivityPatternCalculator"}

\* what a standard calculator returns when it does not raise
StandardResult(name, es) ==
    CASE name = "RequestCountCalculator" -> RequestCountCalculate(es)
      [] name = "ResponseTimeCalculator" -> ResponseTimeCalculate(es)
      [] name = "CodeGenerationCalculator" -> CodeGenerationCalculate(es)
      [] name = "CharacterCountCalculator" -> CharacterCountCalculate(es)
      [] name = "ToolUsageCalculator" -> ToolUsageCalculate(es)
      [] name = "ActivityPatternCalculator" -> ActivityPatternCalculate(es)

\* a standard calculator raises on these entries, and the exception raised
StandardRaises(name, es) ==
    \/ name = "ToolUsageCalculator" /\ ToolUsageRaises(es)
    \/ name = "ActivityPatternCalculator" /\ ActivityPatternRaises(es)
    \/ name = "CodeGenerationCalculator" /\ CodeGenerationRaises(es)
    \/ name = "CharacterCountCalculator" /\ CharacterCountRaises(es)
StandardExc(name) ==
    IF name \in {"CodeGenerationCalculator", "CharacterCountCalculator"}
    THEN "OverflowError" ELSE "TypeError"

\* does calculator calc raise on es, and the mapping it returns when not
Raises(calc, es) ==
    IF calc.name \in StandardNames THEN StandardRaises(calc.name, es) ELSE calc.raises
ResultOf(calc, es) ==
    IF calc.name \in StandardNames THEN StandardResult(calc.name, es) ELSE calc.result

\* mutant: the exception is swallowed inside calculate and the partial result returned
CalculateSwallowed(calc, es) ==
    [raised |-> FALSE, exc |-> "",
     result |-> IF calc.name \in StandardNames /\ ~StandardRaises(calc.name, es)
                THEN StandardResult(calc.name, es) ELSE calc.result]

\* calculator.calculate(entries): the mapping returned, or the exception raised
Calculate(calc, es) ==
    IF Raises(calc, es)
    THEN [raised |-> TRUE,
          exc |-> IF calc.name \in StandardNames THEN StandardExc(calc.name) ELSE calc.exc,
          result |-> EmptyMap]
    ELSE [raised |-> FALSE, exc |-> "", result |-> ResultOf(calc, es)]

(***************************************************************************)
(* AnalyzerService._merge_results                                          *)
(***************************************************************************)
\* mutant: the sub-value written first is kept
AddOrReplaceKeepsCurrent(cur, inc) == cur

\* mutant: the incoming sub-value overwrites instead of being added
AddOrReplaceOverwrites(cur, inc) == inc

\* aggregated[key][sub_key] + sub_value, the incoming value on TypeError
AddOrReplace(cur, inc) == IF cur.num /\ inc.num THEN Num(cur.v + inc.v) ELSE inc

MergeDict(cur, inc) ==
    [s \in DOMAIN cur \cup DOMAIN inc |->
        IF s \notin DOMAIN inc THEN cur[s]
        ELSE IF s \in DOMAIN cur THEN AddOrReplace(cur[s], inc[s])
        ELSE inc[s]]

\* mutant: two scalars are added, two lists concatenated, instead of replaced
MergeKeySums(agg, key, value) ==
    IF key \notin DOMAIN agg THEN value
    ELSE IF IsDict(value) /\ IsDict(agg[key]) THEN DictVal(MergeDict(agg[key].d, value.d))
    ELSE IF value.t = "scalar" /\ agg[key].t = "scalar" THEN Scalar(agg[key].n + value.n)
    ELSE IF value.t = "list" /\ agg[key].t = "list" THEN ListVal(agg[key].l \o value.l)
    ELSE value

MergeKey(agg, key, value) ==
    IF key \notin DOMAIN agg THEN value
    ELSE IF IsDict(value) /\ IsDict(agg[key]) THEN DictVal(MergeDict(agg[key].d, value.d))
    ELSE value

MergeResults(agg, result) ==
    [k \in DOMAIN agg \cup DOMAIN result |->
        IF k \in DOMAIN result THEN MergeKey(agg, k, result[k]) ELSE agg[k]]

(***************************************************************************)
(* AnalyzerService.analyze                                                 *)
(***************************************************************************)
\* "except Exception": every exception class a calculator raises here derives
\* from Exception
ExceptionClasses == {"ValueError", "KeyError", "TypeError", "RuntimeError", "OverflowError"}
\* mutant: "except ValueError" in place of "except Exception"
CatchesValueErrorOnly(exc) == exc = "ValueError"

CatchesException(exc) == exc \in ExceptionClasses

\* aggregated.get(key, default)
Get(agg, key, default) == IF key \in DOMAIN agg THEN agg[key] ELSE default

\* mutant: every key of the aggregate becomes a field of the record
ProductivityMetricsOfAll(period, agg) ==
    [k \in DOMAIN agg \cup DeclaredFields \cup {"analysis_period"} |->
        IF k = "analysis_period" THEN ListVal(period)
        ELSE Get(agg, k, Default(k))]

ProductivityMetrics(period, agg) ==
    [k \in DeclaredFields \cup {"analysis_period"} |->
        IF k = "analysis_period" THEN ListVal(period)
        ELSE Get(agg, k, Default(k))]

NoMetrics == EmptyMap

\* the list in timestamp order, records of equal timestamp in list order
RECURSIVE SortedByTimestamp(_)
SortedByTimestamp(es) ==
    IF es = <<>> THEN <<>>
    ELSE LET i == CHOOSE i \in 1..Len(es) :
                      /\ \A j \in 1..Len(es) :
                            Instant(es[i].timestamp) <= Instant(es[j].timestamp)
                      /\ \A j \in 1..(i - 1) :
                            Instant(es[j].timestamp) # Instant(es[i].timestamp)
         IN <<es[i]>> \o SortedByTimestamp(SubSeq(es, 1, i - 1) \o SubSeq(es, i + 1, Len(es)))

\* mutant: the ActivityPatternCalculator sorts the list it is given
EntriesSortedInPlace(calc, es) ==
    IF calc.name = "ActivityPatternCalculator" /\ ~MixedAwareness(es)
    THEN SortedByTimestamp(es) ELSE es

\* the entries list once calculator.calculate(entries) is over: a calculator
\* reads the list, entry.timestamp, entry.event_type and entry.data, and the
\* ActivityPatternCalculator sorts a copy (sorted()); none assigns to the
\* list or to a record
EntriesAfterCalculate(calc, es) == es

\* analyze is called: the aggregate is seeded with the defaults
AnalyzeCall(es, period) ==
    /\ pc = "idle"
    /\ entries' = es
    /\ analysis_period' = period
    /\ aggregated' = SeedAggregated
    /\ idx' = 1
    /\ pc' = "loop"
    /\ UNCHANGED <<calculators, metrics>>

AnalyzeBegin ==
    /\ cli_pc = "none"
    /\ AnalyzeCall(entries, analysis_period)
    /\ UNCHANGED <<filterVars, parserVars>>

RunCalculator ==
    /\ pc = "loop"
    /\ idx <= Len(calculators)
    /\ LET out == Calculate(calculators[idx], entries) IN
        IF ~out.raised
        THEN /\ aggregated' = MergeResults(aggregated, out.result)
             /\ idx' = idx + 1
             /\ pc' = pc
        ELSE IF CatchesException(out.exc)
        THEN /\ aggregated' = aggregated
             /\ idx' = idx + 1
             /\ pc' = pc
        ELSE /\ pc' = "raised"
             /\ UNCHANGED <<aggregated, idx>>
    /\ entries' = EntriesAfterCalculate(calculators[idx], entries)
    /\ UNCHANGED <<calculators, analysis_period, metrics, filterVars, parserVars>>

BuildMetrics ==
    /\ pc = "loop"
    /\ idx > Len(calculators)
    /\ metrics' = ProductivityMetrics(analysis_period, aggregated)
    /\ pc' = "done"
    /\ UNCHANGED <<calculators, entries, analysis_period, aggregated, idx, filterVars, parserVars>>

(***************************************************************************)
(* AnalyzerService.filter_by_date_range                                    *)
(***************************************************************************)
\* mutant: the offset is kept
KeepTz(dt) == dt

\* dt.replace(tzinfo=None) when dt.tzinfo is not None: the wall-clock fields
\* are kept and the offset dropped
DropTz(dt) == IF dt.aware THEN Naive(dt.wall) ELSE dt

\* mutant: the range test excludes both bounds
FilterKeepsExclusive(entry, start, end) ==
    LET entry_time == DropTz(entry.timestamp)
        compare_start == DropTz(start)
        compare_end == DropTz(end)
    IN compare_start.wall < entry_time.wall /\ entry_time.wall < compare_end.wall

\* one iteration: compare_start <= entry_time <= compare_end on naive datetimes
FilterKeeps(entry, start, end) ==
    LET entry_time == DropTz(entry.timestamp)
        compare_start == DropTz(start)
        compare_end == DropTz(end)
    IN compare_start.wall <= entry_time.wall /\ entry_time.wall <= compare_end.wall

\* mutant: the records kept are returned newest position first
FilterByDateRangeReversed(es, start, end) ==
    LET kept == SelectSeq(es, LAMBDA e : FilterKeeps(e, start, end))
    IN [i \in 1..Len(kept) |-> kept[Len(kept) + 1 - i]]

\* mutant: the date range is not applied
FilterByDateRangeSkipped(es, start, end) == es

RECURSIVE FilterByDateRange(_, _, _)
FilterByDateRange(es, start, end) ==
    IF es = <<>> THEN <<>>
    ELSE IF FilterKeeps(Head(es), start, end)
         THEN <<Head(es)>> \o FilterByDateRange(Tail(es), start, end)
         ELSE FilterByDateRange(Tail(es), start, end)

\* datetime comparison: an offset-naive and an offset-aware datetime cannot be
\* ordered (TypeError)
Comparable(a, b) == a.aware = b.aware

\* the chained comparison of one iteration raises: the second comparison is
\* made only when the first holds
FilterKeepsRaises(entry, start, end) ==
    LET entry_time == DropTz(entry.timestamp)
        compare_start == DropTz(start)
        compare_end == DropTz(end)
    IN \/ ~Comparable(compare_start, entry_time)
       \/ compare_start.wall <= entry_time.wall /\ ~Comparable(entry_time, compare_end)

FilterRaises(es, start, end) == \E i \in 1..Len(es) : FilterKeepsRaises(es[i], start, end)

\* the caller's call of filter_by_date_range (cli.py)
Filter ==
    /\ cli_pc = "parsed"
    /\ IF FilterRaises(log_entries, start_date, end_date)
       THEN filtered_entries' = <<>> /\ cli_pc' = "raised"
       ELSE /\ filtered_entries' = FilterByDateRange(log_entries, start_date, end_date)
            /\ cli_pc' = "filtered"
    /\ UNCHANGED <<log_entries, start_date, end_date, analyzeVars, parserVars>>

(***************************************************************************)
(* The date-range filter under any entries and bounds                      *)
(***************************************************************************)
Datetimes == {Naive(t) : t \in 0..MaxTime} \cup {Aware(t, o) : t \in 0..MaxTime, o \in Offsets}

FilterEntries == {LogEntry(ts, "request", EmptyMap) : ts \in Datetimes}

\* both bounds naive, or both aware in one zone
Periods ==
    {<<Naive(a), Naive(b)>> : a, b \in 0..MaxTime} \cup
    {<<Aware(a, 0), Aware(b, 0)>> : a, b \in 0..MaxTime}

FilterIdle ==
    /\ log_entries = <<>>
    /\ start_date = Naive(0)
    /\ end_date = Naive(0)
    /\ filtered_entries = <<>>
    /\ cli_pc = "none"

AnalyzeIdle ==
    /\ calculators = <<>>
    /\ entries = <<>>
    /\ analysis_period = <<Naive(0), Naive(0)>>
    /\ aggregated = EmptyMap
    /\ idx = 0
    /\ pc = "idle"
    /\ metrics = NoMetrics

InitFilter ==
    /\ log_entries \in SeqsUpTo(FilterEntries, MaxEntries)
    /\ \E p \in Periods : start_date = p[1] /\ end_date = p[2]
    /\ filtered_entries = <<>>
    /\ cli_pc = "parsed"
    /\ AnalyzeIdle
    /\ ParserIdle

NextFilter == Filter

SpecFilter == InitFilter /\ [][NextFilter]_vars

(***************************************************************************)
(* The analyze command (cli.py): parse, filter, analyze                    *)
(***************************************************************************)
\* "if not log_entries: sys.exit(1)"
ExitNoEntries ==
    /\ cli_pc = "parsed"
    /\ log_entries = <<>>
    /\ cli_pc' = "exit"
    /\ UNCHANGED <<log_entries, start_date, end_date, filtered_entries, analyzeVars, parserVars>>

CliFilter == log_entries # <<>> /\ Filter

\* analyzer_service.analyze(filtered_entries, analysis_period=(start_date, end_date))
CliAnalyze ==
    /\ cli_pc = "filtered"
    /\ AnalyzeCall(filtered_entries, <<start_date, end_date>>)
    /\ cli_pc' = "analyzing"
    /\ UNCHANGED <<log_entries, start_date, end_date, filtered_entries, parserVars>>

\* cli.py: the calculators the command constructs, in this order
StandardCalculators ==
    <<Stub("RequestCountCalculator", EmptyMap), Stub("ResponseTimeCalculator", EmptyMap),
      Stub("CodeGenerationCalculator", EmptyMap), Stub("CharacterCountCalculator", EmptyMap),
      Stub("ToolUsageCalculator", EmptyMap), Stub("ActivityPatternCalculator", EmptyMap)>>

\* the shapes of parsed entries: event type, awareness of the timestamp, data
RequestShape(t) ==
    LogEntry(Naive(t), "request",
             [status |-> StrV("success", 7), response_time |-> IntV(2),
              character_count |-> IntV(5), tool |-> StrV("a", 1)])
ToolShape(t) ==
    LogEntry(Naive(t), "tool_invocation",
             [tool_name |-> StrV("b", 1), lines_generated |-> IntV(3),
              language |-> StrV("python", 6)])
AwareShape(t) ==
    LogEntry(Aware(t, 1), "request",
             [status |-> StrV("failed", 6), response_time_seconds |-> StrV("0", 1),
              content |-> StrV("xx", 2)])

PipelineEntries ==
    {RequestShape(t) : t \in 0..MaxTime} \cup {ToolShape(t) : t \in 0..MaxTime}
        \cup {AwareShape(t) : t \in 0..MaxTime}

Init ==
    /\ log_entries \in SeqsUpTo(PipelineEntries, MaxEntries)
    /\ start_date \in {Naive(t) : t \in 0..MaxTime}
    /\ end_date \in {Naive(t) : t \in 0..MaxTime}
    /\ filtered_entries = <<>>
    /\ cli_pc = "parsed"
    /\ calculators = StandardCalculators
    /\ entries = <<>>
    /\ analysis_period = <<Naive(0), Naive(0)>>
    /\ aggregated = EmptyMap
    /\ idx = 0
    /\ pc = "idle"
    /\ metrics = NoMetrics
    /\ ParserIdle

Next ==
    \/ ExitNoEntries
    \/ CliFilter
    \/ CliAnalyze
    \/ RunCalculator
    \/ BuildMetrics

Spec == Init /\ [][Next]_vars

\* the entry occurs in the list
InList(e, es) == \E i \in 1..Len(es) : es[i] = e

\* start <= timestamp <= end, on the wall-clock ticks
InPeriod(e) == start_date.wall <= e.timestamp.wall /\ e.timestamp.wall <= end_date.wall

\* C5: filter_by_date_range keeps a record if and only if start <= timestamp
\* <= end (timestamps taken by their wall-clock ticks): a record exactly at
\* start or exactly at end is kept, one tick (a microsecond) before start or
\* after end is dropped.
C5_FilterInclusive ==
    cli_pc = "filtered" =>
        /\ filtered_entries = SelectSeq(log_entries, InPeriod)
        /\ \A i \in 1..Len(log_entries) :
              LET e == log_entries[i]
                  t == e.timestamp.wall
              IN /\ InList(e, filtered_entries) <=> InPeriod(e)
                 /\ (start_date.wall <= end_date.wall /\ t \in {start_date.wall, end_date.wall})
                        => InList(e, filtered_entries)
                 /\ t \in {start_date.wall - 1, end_date.wall + 1} /\ start_date.wall <= end_date.wall
                        => ~InList(e, filtered_entries)

\* C5 witness: with start < end, a record at start and one at end are kept
\* and one a tick after end is dropped.
C5_Witness ==
    /\ cli_pc = "filtered"
    /\ start_date.wall < end_date.wall
    /\ \E e \in FilterEntries :
          e.timestamp.wall = start_date.wall /\ InList(e, log_entries) /\ InList(e, filtered_entries)
    /\ \E e \in FilterEntries :
          /\ e.timestamp.wall \in {end_date.wall + 1, start_date.wall - 1}
          /\ InList(e, log_entries) /\ ~InList(e, filtered_entries)

C5_WitnessEnd ==
    /\ cli_pc = "filtered"
    /\ start_date.wall < end_date.wall
    /\ \E e \in FilterEntries :
          e.timestamp.wall = end_date.wall /\ InList(e, log_entries) /\ InList(e, filtered_entries)
    /\ \E e \in FilterEntries :
          /\ e.timestamp.wall = start_date.wall - 1
          /\ InList(e, log_entries) /\ ~InList(e, filtered_entries)

(***************************************************************************)
(* The aggregation engine under any calculator list                        *)
(***************************************************************************)
CalculatorPool ==
    {Failing("FailingCalculator", "ValueError", [total_requests |-> Scalar(99)]),
     Failing("BrokenCalculator", "KeyError",
             [tool_usage |-> DictVal([a |-> Num(40)]), peak_activity_periods |-> ListVal(<<<<Naive(9), Naive(11)>>>>)]),
     Stub("PartialCalculator",
          [total_requests |-> Scalar(10), lines_by_language |-> DictVal([python |-> Num(100)])]),
     Stub("Calculator3", [total_requests |-> Scalar(3)]),
     Stub("ToolsA", [tool_usage |-> DictVal([a |-> Num(5)])]),
     Stub("ToolsAB", [tool_usage |-> DictVal([a |-> Num(2), b |-> Num(3)])]),
     Stub("Peaks12", [peak_activity_periods |-> ListVal(<<<<Naive(1), Naive(3)>>, <<Naive(2), Naive(4)>>>>)]),
     Stub("Peaks3", [peak_activity_periods |-> ListVal(<<<<Naive(3), Naive(5)>>>>)]),
     Stub("Mismatch",
          [tool_usage |-> Scalar(7), total_requests |-> DictVal([a |-> Num(1)])]),
     Stub("ModelUsage",
          [configured_model |-> Scalar(1), daily_breakdown |-> DictVal([d1 |-> NonNum])]),
     Stub("Daily", [daily_breakdown |-> DictVal([d1 |-> Num(4)])]),
     Stub("RequestCountCalculator", EmptyMap)}

EntriesPool ==
    {<<>>,
     <<LogEntry(Naive(0), "request", EmptyMap), LogEntry(Naive(1), "request", EmptyMap)>>,
     <<LogEntry(Naive(1), "conversation_start", EmptyMap)>>}

InitAnalyze ==
    /\ calculators \in SeqsUpTo(CalculatorPool, MaxCalcs)
    /\ entries \in EntriesPool
    /\ analysis_period = <<Naive(0), Naive(1)>>
    /\ aggregated = EmptyMap
    /\ idx = 0
    /\ pc = "idle"
    /\ metrics = NoMetrics
    /\ FilterIdle
    /\ ParserIdle

NextAnalyze == AnalyzeBegin \/ RunCalculator \/ BuildMetrics

SpecAnalyze == InitAnalyze /\ [][NextAnalyze]_vars

(***************************************************************************)
(* Properties of the aggregation engine                                    *)
(***************************************************************************)
\* calculators that have run so far
Ran == IF pc \in {"loop", "done"} THEN idx - 1 ELSE 0

\* calculator i returned a mapping (did not raise), and the mapping it returned
Succeeded(i) == ~Raises(calculators[i], entries)
Returned(i) == ResultOf(calculators[i], entries)
Emitted(i, k) == Succeeded(i) /\ k \in DOMAIN Returned(i)

Emitters(k, n) == {i \in 1..n : Emitted(i, k)}
SetMax(S) == CHOOSE x \in S : \A y \in S : y <= x

\* C1: analyze returns a Metrics Record that has all twelve declared fields,
\* and every field that no successful calculator wrote holds the zero/empty
\* default it was seeded with.
C1_AllFieldsPresent ==
    pc = "done" =>
        /\ DeclaredFields \subseteq DOMAIN metrics
        /\ \A k \in DeclaredFields :
              Emitters(k, Len(calculators)) = {} =>
                  /\ metrics[k] = SeedAggregated[k]
                  /\ k \in KeyedCounterFields => metrics[k] = DictVal(EmptyDict)
                  /\ k = "peak_activity_periods" => metrics[k] = ListVal(<<>>)
                  /\ k \notin KeyedCounterFields \cup {"peak_activity_periods"}
                        => metrics[k] = Scalar(0)

\* C1 witness: a list with a raising calculator and a partial one has run, and
\* a field nobody wrote is at its default beside a field that was written.
C1_Witness ==
    /\ pc = "done"
    /\ \E i, j \in 1..Len(calculators) :
          /\ calculators[i].raises
          /\ calculators[j].name = "PartialCalculator"
    /\ Emitters("total_conversations", Len(calculators)) = {}
    /\ metrics["total_conversations"] = Scalar(0)
    /\ metrics["lines_by_language"] # DictVal(EmptyDict)

\* the aggregate analyze builds from a list of returned mappings, in order
RECURSIVE MergeAll(_, _)
MergeAll(agg, results) ==
    IF results = <<>> THEN agg
    ELSE MergeAll(MergeResults(agg, Head(results)), Tail(results))

\* the mappings returned by the non-failing calculators among the first n
RECURSIVE ReturnedBy(_)
ReturnedBy(n) ==
    IF n = 0 THEN <<>>
    ELSE IF Succeeded(n) THEN Append(ReturnedBy(n - 1), Returned(n))
    ELSE ReturnedBy(n - 1)

\* C2: whatever subset of the calculators raises, analyze does not raise and
\* does not stop early; the aggregate is at every point the in-order merge of
\* what the non-failing calculators run so far returned, so a failing
\* calculator leaves it as it was and those after it are still merged.
C2_FailuresIsolated ==
    /\ pc # "raised"
    /\ pc \in {"idle", "loop"} => ENABLED (AnalyzeBegin \/ RunCalculator \/ BuildMetrics)
    /\ pc \in {"loop", "done"} => aggregated = MergeAll(SeedAggregated, ReturnedBy(Ran))
    /\ pc = "done" => Ran = Len(calculators)

\* C2 witness: failing, request counter, failing (the unit test): the two
\* requests are counted and analyze is done.
C2_Witness ==
    /\ pc = "done"
    /\ Len(calculators) = 3
    /\ calculators[1].raises /\ calculators[3].raises
    /\ calculators[2].name = "RequestCountCalculator"
    /\ Len(entries) = 2
    /\ metrics["total_requests"] = Scalar(2)
    /\ metrics["total_conversations"] = Scalar(0)

\* sum of the values calculators 1..n returned for sub-key s of field k
RECURSIVE SubKeySum(_, _, _)
SubKeySum(k, s, n) ==
    IF n = 0 THEN 0
    ELSE SubKeySum(k, s, n - 1) +
         (IF Emitted(n, k) /\ s \in DOMAIN Returned(n)[k].d THEN Returned(n)[k].d[s].v ELSE 0)

SubKeysOf(k, n) == UNION {DOMAIN Returned(i)[k].d : i \in Emitters(k, n)}

\* every calculator that wrote field k wrote a mapping with numeric values
AllCounters(k, n) ==
    \A i \in Emitters(k, n) :
        /\ IsDict(Returned(i)[k])
        /\ \A s \in DOMAIN Returned(i)[k].d : Returned(i)[k].d[s].num

\* C3: when the calculators that emit a keyed-counter field all emit mappings
\* of numbers, the field of the Metrics Record holds exactly the sub-keys any
\* of them emitted, each with the numeric sum of its values over the
\* calculators that emitted it (one emitted once keeps its value).
C3_KeyedCountersSummed ==
    pc = "done" =>
        \A k \in KeyedCounterFields :
            AllCounters(k, Len(calculators)) =>
                /\ IsDict(metrics[k])
                /\ DOMAIN metrics[k].d = SubKeysOf(k, Len(calculators))
                /\ \A s \in DOMAIN metrics[k].d :
                      metrics[k].d[s] = Num(SubKeySum(k, s, Len(calculators)))

\* C3 witness: {a: 5} then {a: 2, b: 3} gives {a: 7, b: 3}.
C3_Witness ==
    /\ pc = "done"
    /\ Len(calculators) = 2
    /\ calculators[1].name = "ToolsA"
    /\ calculators[2].name = "ToolsAB"
    /\ metrics["tool_usage"] = DictVal([a |-> Num(7), b |-> Num(3)])

\* the value field k had when calculator j ran was not a mapping: the
\* emitter before j wrote a scalar or list, or nobody had and the seed is one
CurrentNotDict(k, j) ==
    IF Emitters(k, j - 1) # {}
    THEN ~IsDict(Returned(SetMax(Emitters(k, j - 1)))[k])
    ELSE k \in DeclaredFields /\ ~IsDict(SeedAggregated[k])

\* C4: a key whose last successful emitter wrote a scalar or a list, or wrote
\* a mapping over a value that was not one, holds exactly that emitter's
\* value: replaced outright, never summed or concatenated.
C4_LastWriterWins ==
    pc \in {"loop", "done"} =>
        \A k \in DOMAIN aggregated :
            Emitters(k, Ran) # {} =>
                LET j == SetMax(Emitters(k, Ran))
                    v == Returned(j)[k]
                IN (~IsDict(v) \/ CurrentNotDict(k, j)) =>
                       /\ aggregated[k] = v
                       /\ (pc = "done" /\ k \in DeclaredFields) => metrics[k] = v

\* C4 witness: total_requests 10 then 3 gives 3, [1, 2] then [3] gives [3],
\* and a mapping written over a scalar replaces it.
C4_Witness ==
    /\ pc = "done"
    /\ Len(calculators) = 3
    /\ calculators[1].name = "PartialCalculator"
    /\ calculators[2].name = "Calculator3"
    /\ calculators[3].name = "Mismatch"
    /\ aggregated["total_requests"] = DictVal([a |-> Num(1)])
    /\ metrics["tool_usage"] = Scalar(7)

C4_WitnessScalar ==
    /\ pc = "done"
    /\ Len(calculators) = 2
    /\ calculators[1].name = "PartialCalculator"
    /\ calculators[2].name = "Calculator3"
    /\ metrics["total_requests"] = Scalar(3)

(***************************************************************************)
(* Properties of the analyze command                                       *)
(***************************************************************************)
\* the records of the parsed sequence inside the period
InPeriodOnly == SelectSeq(log_entries, InPeriod)

\* what the calculators return on es, those that raise left out
RECURSIVE ResultsOn(_, _)
ResultsOn(calcs, es) ==
    IF calcs = <<>> THEN <<>>
    ELSE (IF Raises(Head(calcs), es) THEN <<>> ELSE <<ResultOf(Head(calcs), es)>>)
         \o ResultsOn(Tail(calcs), es)

\* number of entries of es with the event type
CountOf(es, ty) == Cardinality({i \in 1..Len(es) : es[i].event_type = ty})

RECURSIVE DictTotal(_)
DictTotal(d) ==
    IF DOMAIN d = {} THEN 0
    ELSE LET s == CHOOSE s \in DOMAIN d : TRUE
         IN d[s].v + DictTotal([x \in DOMAIN d \ {s} |-> d[x]])

\* C6: the date-range filter runs before any calculator, so the calculators
\* see only records inside [start, end], and the Metrics Record for the
\* period is the one the records inside the period alone produce: a record
\* outside contributes to no field.
C6_OutsideRecordsIgnored ==
    /\ pc # "idle" =>
          /\ \A i \in 1..Len(entries) : InPeriod(entries[i])
          /\ entries = InPeriodOnly
    /\ pc = "done" =>
          /\ metrics = ProductivityMetrics(<<start_date, end_date>>,
                          MergeAll(SeedAggregated, ResultsOn(calculators, InPeriodOnly)))
          /\ metrics["total_requests"] = Scalar(CountOf(InPeriodOnly, "request"))
          /\ ~MixedAwareness(InPeriodOnly) =>
                DictTotal(metrics["daily_breakdown"].d) = Len(InPeriodOnly)

\* C6 witness: a request outside the period and one inside were parsed; the
\* record counts one request.
C6_Witness ==
    /\ pc = "done"
    /\ Len(log_entries) = 2
    /\ \E i, j \in 1..2 :
          /\ ~InPeriod(log_entries[i]) /\ log_entries[i].event_type = "request"
          /\ InPeriod(log_entries[j]) /\ log_entries[j].event_type = "request"
    /\ metrics["total_requests"] = Scalar(1)
    /\ DictTotal(metrics["daily_breakdown"].d) = 1

(***************************************************************************)
(* Log files                                                               *)
(***************************************************************************)
\* a line of a log file, by what the parsers can make of its text
Blank == [shape |-> "blank"]              \* empty, or whitespace only
Malformed == [shape |-> "malformed"]      \* text in no parser's grammar, such as {bad}
\* bytes that are not UTF-8, starting a new buffer-full of the file (the lines
\* before them have been decoded): reading them raises UnicodeDecodeError
Undecodable == [shape |-> "undecodable"]
JsonObject(fields) == [shape |-> "json", kind |-> "object", fields |-> fields]
JsonNumber == [shape |-> "json", kind |-> "number", fields |-> EmptyMap]
JsonArray == [shape |-> "json", kind |-> "array", fields |-> EmptyMap]

\* models.py LogEntry, as the parsers construct it
ParsedEntry(ts, ty, data, line, path) ==
    [timestamp |-> ts, event_type |-> ty, data |-> data, raw_line |-> line,
     source_file |-> path]

Hour(h) == h * TicksPerHour

\* a path: its name, its suffix, and whether it carries a Kiro signature
\* ("kiro.kiroAgent", "Kiro Logs.log", "q-client.log")
FilePath(name, suffix, vendor) == [name |-> name, suffix |-> suffix, vendor |-> vendor]

(***************************************************************************)
(* JSONLogParser (parsers/json_parser.py)                                  *)
(***************************************************************************)
timestamp_fields == <<"timestamp", "time", "datetime", "date", "@timestamp", "ts">>
event_fields == <<"event_type", "event", "type", "level", "action">>

\* datetime.fromisoformat(text.replace('Z', '+00:00')), for the texts it accepts
IsoFormat ==
    ("2025-11-19T10:00:00Z" :> Aware(Hour(10), 0)) @@
    ("2025-11-19T11:00:00Z" :> Aware(Hour(11), 0)) @@
    ("2025-11-19T10:00:00" :> Naive(Hour(10))) @@
    ("2025-11-19T12:00:00+01:00" :> Aware(Hour(12), Hour(1)))

\* Unix times are counted in ticks.  The parser's threshold of 1e10, and the
\* Unix times past which datetime.fromtimestamp raises ValueError (year out
\* of range) and OverflowError (out of range for time_t), are scaled to the
\* ticks of the model.
MsThreshold == 10
YearLimit == 20
TimeTLimit == 30
MsPerSecond == 1000

\* datetime.fromtimestamp(seconds): the local time, the zone being tz ahead of UTC
FromTimestamp(seconds, tz) ==
    IF seconds > TimeTLimit THEN [exc |-> "OverflowError", value |-> Naive(0)]
    ELSE IF seconds > YearLimit THEN [exc |-> "ValueError", value |-> Naive(0)]
    ELSE [exc |-> "none", value |-> Naive(seconds + tz)]

\* mutant: a value equal to the threshold is taken as milliseconds
TimestampOfFromThreshold(v, tz) ==
    IF v.k = "str"
    THEN IF v.s \in DOMAIN IsoFormat
         THEN [exc |-> "none", value |-> IsoFormat[v.s]]
         ELSE [exc |-> "ValueError", value |-> Naive(0)]
    ELSE IF v.k \in {"int", "bool"}
    THEN IF v.n >= MsThreshold
         THEN FromTimestamp(v.n \div MsPerSecond, tz)
         ELSE FromTimestamp(v.n, tz)
    ELSE IF v.k = "inf" THEN [exc |-> "OverflowError", value |-> Naive(0)]
    ELSE [exc |-> "fallthrough", value |-> Naive(0)]

\* _extract_timestamp: the body of the try for one alias value; "fallthrough"
\* is a value neither isinstance branch takes (None, a list)
TimestampOf(v, tz) ==
    IF v.k = "str"
    THEN IF v.s \in DOMAIN IsoFormat
         THEN [exc |-> "none", value |-> IsoFormat[v.s]]
         ELSE [exc |-> "ValueError", value |-> Naive(0)]
    ELSE IF v.k \in {"int", "bool"}
    THEN IF v.n > MsThreshold
         THEN FromTimestamp(v.n \div MsPerSecond, tz)
         ELSE FromTimestamp(v.n, tz)
    ELSE IF v.k = "inf" THEN [exc |-> "OverflowError", value |-> Naive(0)]
    ELSE [exc |-> "fallthrough", value |-> Naive(0)]

\* _extract_timestamp: the for loop over the aliases; ValueError and OSError
\* are caught and the loop continues, any other exception leaves the function
RECURSIVE ProbeTimestamp(_, _, _)
ProbeTimestamp(data, fields, tz) ==
    IF fields = <<>> THEN [exc |-> "none", found |-> FALSE, value |-> Naive(0)]
    ELSE IF Head(fields) \notin DOMAIN data THEN ProbeTimestamp(data, Tail(fields), tz)
    ELSE LET r == TimestampOf(data[Head(fields)], tz) IN
         IF r.exc = "none" THEN [exc |-> "none", found |-> TRUE, value |-> r.value]
         ELSE IF r.exc \in {"ValueError", "OSError", "fallthrough"}
         THEN ProbeTimestamp(data, Tail(fields), tz)
         ELSE [exc |-> r.exc, found |-> FALSE, value |-> Naive(0)]

\* mutant: the first alias present decides, whatever its value
ExtractTimestampFirstPresent(json, tz) ==
    IF json.kind = "number" THEN [exc |-> "TypeError", found |-> FALSE, value |-> Naive(0)]
    ELSE LET present == {i \in 1..Len(timestamp_fields) :
                            timestamp_fields[i] \in DOMAIN json.fields}
         IN  IF present = {} THEN [exc |-> "none", found |-> FALSE, value |-> Naive(0)]
             ELSE LET i == CHOOSE i \in present : \A j \in present : i <= j
                      r == TimestampOf(json.fields[timestamp_fields[i]], tz)
                  IN  IF r.exc = "none"
                      THEN [exc |-> "none", found |-> TRUE, value |-> r.value]
                      ELSE IF r.exc \in {"ValueError", "OSError", "fallthrough"}
                      THEN [exc |-> "none", found |-> FALSE, value |-> Naive(0)]
                      ELSE [exc |-> r.exc, found |-> FALSE, value |-> Naive(0)]

\* _extract_timestamp(data, line_number): "field in data" raises TypeError on
\* a number and is false on an empty array
ExtractTimestamp(json, tz) ==
    IF json.kind = "number" THEN [exc |-> "TypeError", found |-> FALSE, value |-> Naive(0)]
    ELSE ProbeTimestamp(json.fields, timestamp_fields, tz)

\* str(value)
Str(v) ==
    IF v.k = "str" THEN v.s
    ELSE IF v.k = "none" THEN "None"
    ELSE IF v.k = "bool" THEN (IF v.n = 1 THEN "True" ELSE "False")
    ELSE IF v.k = "list" THEN (IF v.n = 0 THEN "[]" ELSE "[...]")
    ELSE IF v.k = "inf" THEN "inf"
    ELSE ToString(v.n)

RECURSIVE ProbeEventType(_, _)
ProbeEventType(data, fields) ==
    IF fields = <<>> THEN "unknown"
    ELSE IF Head(fields) \in DOMAIN data THEN Str(data[Head(fields)])
    ELSE ProbeEventType(data, Tail(fields))

\* mutant: the last alias present decides
ExtractEventTypeLastPresent(data) ==
    ProbeEventType(data, <<"action", "level", "type", "event", "event_type">>)

\* _extract_event_type(data)
ExtractEventType(data) == ProbeEventType(data, event_fields)

\* parse: the body of the try for one non-empty line: the exception it
\* raises, or the entries it yields
JsonLineBody(line, path, tz) ==
    IF line.shape # "json" THEN [exc |-> "JSONDecodeError", entries |-> <<>>]
    ELSE LET ts == ExtractTimestamp(line, tz) IN
         IF ts.exc # "none" THEN [exc |-> ts.exc, entries |-> <<>>]
         ELSE IF ~ts.found THEN [exc |-> "none", entries |-> <<>>]
         ELSE [exc |-> "none",
               entries |-> <<ParsedEntry(ts.value, ExtractEventType(line.fields),
                                         line.fields, line, path)>>]

\* the classes derived from Exception that the parsers' code can raise
Exceptions ==
    {"JSONDecodeError", "ValueError", "TypeError", "OverflowError", "OSError",
     "UnicodeDecodeError", "FileNotFoundError", "KeyError", "AttributeError"}

JsonParseCatchesNoDecodeError(exc) == exc \in Exceptions \ {"JSONDecodeError"}

\* parse: "except json.JSONDecodeError" and "except Exception"
JsonParseCatches(exc) == exc = "JSONDecodeError" \/ exc \in Exceptions

\* parse: one iteration of the for loop, on a line the stream delivered
JsonLineOutcome(line, path, tz) ==
    IF line.shape = "blank" THEN [exc |-> "none", entries |-> <<>>]
    ELSE LET body == JsonLineBody(line, path, tz) IN
         IF body.exc # "none" /\ JsonParseCatches(body.exc)
         THEN [exc |-> "none", entries |-> <<>>]
         ELSE body

\* parse(file_path), run to the end of the stream: the entries yielded, and
\* the exception that ended it, if one did
RECURSIVE JsonParse(_, _, _)
JsonParse(lines, path, tz) ==
    IF lines = <<>> THEN [exc |-> "none", entries |-> <<>>]
    ELSE IF Head(lines).shape = "undecodable"
    THEN [exc |-> "UnicodeDecodeError", entries |-> <<>>]
    ELSE LET out == JsonLineOutcome(Head(lines), path, tz) IN
         IF out.exc # "none" THEN out
         ELSE LET rest == JsonParse(Tail(lines), path, tz) IN
              [exc |-> rest.exc, entries |-> out.entries \o rest.entries]

JsonPath == FilePath("test_json", ".json", FALSE)

\* the generator is resumed: the stream delivers the next line, or raises
JsonNextLine ==
    /\ json_pc = "reading"
    /\ line_number < Len(json_file)
    /\ LET line == json_file[line_number + 1] IN
        IF line.shape = "undecodable"
        THEN /\ json_pc' = "raised"
             /\ UNCHANGED <<line_number, yielded>>
        ELSE \E tz \in Offsets :
             LET out == JsonLineOutcome(line, JsonPath, tz) IN
             /\ line_number' = line_number + 1
             /\ yielded' = yielded \o out.entries
             /\ json_pc' = IF out.exc = "none" THEN json_pc ELSE "raised"
    /\ UNCHANGED <<json_file, kiroVars, registryVars, serviceVars, analyzeVars, filterVars, fileVars, textVars, envVars>>

\* the stream is exhausted: the generator returns
JsonEnd ==
    /\ json_pc = "reading"
    /\ line_number = Len(json_file)
    /\ json_pc' = "done"
    /\ UNCHANGED <<json_file, line_number, yielded, kiroVars, registryVars, serviceVars,
                   analyzeVars, filterVars, fileVars, textVars, envVars>>

(***************************************************************************)
(* JSONLogParser.parse on any file                                         *)
(***************************************************************************)
MaxLines == 3

RequestLine ==
    JsonObject([timestamp |-> StrV("2025-11-19T10:00:00Z", 20),
                event_type |-> StrV("request", 7)])
ValidLine ==
    JsonObject([timestamp |-> StrV("2025-11-19T11:00:00Z", 20),
                event |-> StrV("valid", 5)])
UnixLine == JsonObject([time |-> IntV(2)])
NoTimestampLine == JsonObject([event_type |-> StrV("request", 7)])
SecondAliasLine ==
    JsonObject([timestamp |-> StrV("yesterday", 9), ts |-> IntV(MsThreshold + 1)])
OverflowLine ==
    JsonObject([timestamp |-> IntV((TimeTLimit + 1) * MsPerSecond), time |-> IntV(2)])

LevelLine ==
    JsonObject([date |-> StrV("2025-11-19T10:00:00", 19), level |-> NoneV,
                action |-> StrV("save", 4)])
\* a numeric timestamp exactly at the threshold, and one in milliseconds
BoundaryLine == JsonObject([ts |-> IntV(MsThreshold)])
MillisLine == JsonObject([timestamp |-> IntV(3 * MsPerSecond)])

JsonLines ==
    {Blank, Malformed, Undecodable, JsonNumber, RequestLine, ValidLine, UnixLine,
     NoTimestampLine, SecondAliasLine, OverflowLine, LevelLine, BoundaryLine,
     MillisLine}

InitJson ==
    /\ json_file \in SeqsUpTo(JsonLines, MaxLines)
    /\ line_number = 0
    /\ yielded = <<>>
    /\ json_pc = "reading"
    /\ KiroIdle /\ RegistryIdle /\ ServiceIdle /\ FileIdle /\ TextIdle /\ EnvIdle
    /\ AnalyzeIdle /\ FilterIdle

NextJson == JsonNextLine \/ JsonEnd

SpecJson == InitJson /\ [][NextJson]_vars

\* the line decodes as JSON and _extract_timestamp resolves a timestamp in it
Resolves(line) ==
    /\ line.shape = "json"
    /\ \E tz \in Offsets :
          LET ts == ExtractTimestamp(line, tz) IN ts.exc = "none" /\ ts.found

\* the lines parse has consumed
Consumed == SubSeq(json_file, 1, line_number)

PresentAliases(data) ==
    {i \in 1..Len(timestamp_fields) : timestamp_fields[i] \in DOMAIN data}
AliasValue(data, i) == data[timestamp_fields[i]]
First(S) == CHOOSE i \in S : \A j \in S : i <= j

\* the value parses as a timestamp, to t; it is rejected (ValueError, OSError,
\* or neither text nor number) and the next alias is tried
ParsesTo(v, t) == \E tz \in Offsets : TimestampOf(v, tz) = [exc |-> "none", value |-> t]
Parsing(v) == \E tz \in Offsets : TimestampOf(v, tz).exc = "none"
Rejected(v) ==
    \A tz \in Offsets : TimestampOf(v, tz).exc \in {"ValueError", "OSError", "fallthrough"}
ParsingAliases(data) == {i \in PresentAliases(data) : Parsing(AliasValue(data, i))}

\* the consumed lines that are JSON objects, and whether a record was yielded
\* for the line
ObjectLines == {k \in 1..line_number : json_file[k].shape = "json" /\ json_file[k].kind = "object"}
HasRecord(line) == \E i \in 1..Len(yielded) : yielded[i].raw_line = line

\* C15: the timestamp of a line is resolved from the first alias key, in the
\* order timestamp, time, datetime, date, @timestamp, ts, that is present in
\* the line's object: once an earlier alias is present the later ones are
\* never consulted; a line for which no timestamp is resolved yields no record.
C15_FirstPresentAliasWins ==
    /\ \A i \in 1..Len(yielded) :
          LET data == yielded[i].raw_line.fields IN
          /\ PresentAliases(data) # {}
          /\ ParsesTo(AliasValue(data, First(PresentAliases(data))), yielded[i].timestamp)
    /\ \A k \in ObjectLines :
          LET data == json_file[k].fields IN
          (PresentAliases(data) = {} \/ ~Parsing(AliasValue(data, First(PresentAliases(data)))))
              => ~HasRecord(json_file[k])

\* C15, amended: the timestamp is that of the first alias, in order, that is
\* present and whose value parses, the present aliases before it having been
\* rejected and skipped; a line whose first parsing alias comes after
\* rejected aliases only yields a record, and a line none of whose aliases
\* parses yields no record.
C15_FirstParsingAliasWins ==
    /\ \A i \in 1..Len(yielded) :
          LET data == yielded[i].raw_line.fields IN
          /\ ParsingAliases(data) # {}
          /\ ParsesTo(AliasValue(data, First(ParsingAliases(data))), yielded[i].timestamp)
          /\ \A j \in PresentAliases(data) :
                j < First(ParsingAliases(data)) => Rejected(AliasValue(data, j))
    /\ \A k \in ObjectLines :
          LET data == json_file[k].fields IN
          /\ ParsingAliases(data) = {} => ~HasRecord(json_file[k])
          /\ (/\ ParsingAliases(data) # {}
              /\ \A j \in PresentAliases(data) :
                    j < First(ParsingAliases(data)) => Rejected(AliasValue(data, j)))
                => HasRecord(json_file[k])

\* a line whose timestamp key holds "yesterday" and whose ts key holds a Unix
\* time: its record carries the time of ts
C15_Witness ==
    /\ json_pc = "done"
    /\ json_file = <<SecondAliasLine, NoTimestampLine>>
    /\ Len(yielded) = 1
    /\ yielded[1].raw_line = SecondAliasLine
    /\ ParsesTo(SecondAliasLine.fields["ts"], yielded[1].timestamp)
    /\ ~Parsing(SecondAliasLine.fields["timestamp"])

\* the positions, in event_fields, of the alias keys present in the object
PresentEvents(data) == {i \in 1..Len(event_fields) : event_fields[i] \in DOMAIN data}

\* C16: every record yielded has a string event_type, never null: the
\* value, as text, of the first key present among event_type, event, type,
\* level, action in that order, and "unknown" when none of them is present.
C16_EventTypeNeverNull ==
    \A i \in 1..Len(yielded) :
        LET data == yielded[i].raw_line.fields IN
        /\ yielded[i].event_type \in STRING
        /\ yielded[i].event_type =
              IF PresentEvents(data) = {} THEN "unknown"
              ELSE Str(data[event_fields[First(PresentEvents(data))]])

\* a line whose level is null and that has an action, then a line with no
\* event key: the records' event types are "None" and "unknown"
C16_Witness ==
    /\ json_pc = "done"
    /\ json_file = <<LevelLine, UnixLine>>
    /\ Len(yielded) = 2
    /\ yielded[1].event_type = "None"
    /\ yielded[2].event_type = "unknown"

(***************************************************************************)
(* KiroLogParser (parsers/kiro_parser.py)                                  *)
(***************************************************************************)
\* A line "timestamp [level] message".  The message is given by the
\* substrings the parser searches it for, and by the text from its first
\* opening to its last closing brace (json_match): none, text json.loads
\* rejects, or an object, given by the keys the parser probes.
KiroLine(ts, level, message) ==
    [shape |-> "kiro", ts |-> ts, level |-> level, message |-> message]

NoPayload ==
    [braces |-> "none", conversationId |-> FALSE, conversationState |-> "absent",
     toolUses |-> "absent"]
InvalidPayload ==
    [braces |-> "invalid", conversationId |-> FALSE, conversationState |-> "absent",
     toolUses |-> "absent"]
ObjectPayload(id, state, uses) ==
    [braces |-> "object", conversationId |-> id, conversationState |-> state,
     toolUses |-> uses]

\* datetime.strptime(timestamp_str, '%Y-%m-%d %H:%M:%S.%f') for the texts it
\* accepts, to the tick
KiroTimestamps ==
    ("2025-11-19 23:03:58.159" :> Naive(Hour(23))) @@
    ("2025-11-19 10:00:00.000" :> Naive(Hour(10)))

\* the levels of the lines, with the lengths of their texts
KiroLevels == ("info" :> 4) @@ ("error" :> 5) @@ ("warning" :> 7) @@ ("ERROR" :> 5)

\* str.lower()
LowerCase == ("ERROR" :> "error") @@ (".LOG" :> ".log")
Lower(s) == IF s \in DOMAIN LowerCase THEN LowerCase[s] ELSE s

\* data[key] = value, when the condition holds
SetIf(cond, key, value) == IF cond THEN key :> value ELSE EmptyMap

\* _extract_conversation_data(json_data, data): the keys it sets; the id
\* under conversationState overwrites the direct one
ExtractConversationData(payload) ==
    SetIf(payload.conversationState = "with_id", "conversation_id", StrV("c2", 2)) @@
    SetIf(payload.conversationId, "conversation_id", StrV("c1", 2))

\* _extract_conversation_data raises: "'conversationId' in conv_state" on a number
ConversationDataRaises(payload) == payload.conversationState = "number"

\* _extract_tool_usage(json_data, data): the keys it sets for toolUses
ExtractToolUsage(payload) ==
    SetIf(payload.toolUses = "named", "tools_used", ListV(1)) @@
    SetIf(payload.toolUses = "named", "tool_count", IntV(1)) @@
    SetIf(payload.toolUses = "empty", "tools_used", ListV(0)) @@
    SetIf(payload.toolUses = "empty", "tool_count", IntV(0))

\* mutant: only the "[Tool agent Action]" marker sets the flag
ToolInvocationFlagActionOnly(message) == message.tool_action

\* "'[Tool agent Action]' in message or 'toolUse' in message"
ToolInvocationFlag(message) == message.tool_action \/ message.toolUse

\* _extract_kiro_data(message, level): the exception it raises, or the data
ExtractKiroData(message, level) ==
    LET payload == message.payload
        agent == message.agent_controller
        start == agent /\ message.triggered
    IN  IF payload.braces = "object" /\ ConversationDataRaises(payload)
        THEN [exc |-> "TypeError", data |-> EmptyMap]
        ELSE [exc |-> "none",
              data |->
                ("level" :> StrV(level, KiroLevels[level])) @@
                ("message" :> message) @@
                SetIf(payload.braces = "object", "json_payload", payload) @@
                (IF payload.braces = "object"
                 THEN ExtractConversationData(payload) @@ ExtractToolUsage(payload)
                 ELSE EmptyMap) @@
                SetIf(agent, "agent_event", BoolV(TRUE)) @@
                SetIf(start, "event_subtype", StrV("agent_start", 11)) @@
                SetIf(start /\ message.autonomy = "Supervised", "autonomy_mode",
                      StrV("Supervised", 10)) @@
                SetIf(ToolInvocationFlag(message), "tool_invocation", BoolV(TRUE)) @@
                SetIf(message.terminal /\ message.executing, "terminal_command",
                      BoolV(TRUE))]

\* _determine_event_type: the checks after those of the agent events
EventTypeAfterAgent(message, data) ==
    IF Truthy(DataGet(data, "tool_invocation", NoneV)) THEN "tool_invocation"
    ELSE IF Truthy(DataGet(data, "terminal_command", NoneV)) THEN "terminal_command"
    ELSE IF "conversation_id" \in DOMAIN data
    THEN IF message.toolUses \/ Truthy(DataGet(data, "tools_used", NoneV))
         THEN "assistant_response"
         ELSE IF message.user_input THEN "user_request"
         ELSE "conversation_message"
    ELSE IF message.llm_command THEN "llm_request"
    ELSE LET level == Lower(DataGet(data, "level", StrV("", 0)).s) IN
         IF level = "error" THEN "error"
         ELSE IF level = "warning" THEN "warning"
         ELSE "info"

DetermineEventTypeToolFirst(message, data) ==
    IF Truthy(DataGet(data, "tool_invocation", NoneV)) THEN "tool_invocation"
    ELSE IF Truthy(DataGet(data, "agent_event", NoneV))
    THEN IF DataGet(data, "event_subtype", NoneV) = StrV("agent_start", 11)
         THEN "conversation_start"
         ELSE "agent_event"
    ELSE EventTypeAfterAgent(message, data)

\* _determine_event_type(message, data)
DetermineEventType(message, data) ==
    IF Truthy(DataGet(data, "agent_event", NoneV))
    THEN IF DataGet(data, "event_subtype", NoneV) = StrV("agent_start", 11)
         THEN "conversation_start"
         ELSE "agent_event"
    ELSE EventTypeAfterAgent(message, data)

\* _parse_kiro_log_line(line, file_path): the exception it raises, or the
\* entry it returns (none when the line does not match the pattern or its
\* timestamp does not parse)
ParseKiroLogLine(line, path) ==
    IF line.shape # "kiro" THEN [exc |-> "none", entries |-> <<>>]
    ELSE IF line.ts \notin DOMAIN KiroTimestamps THEN [exc |-> "none", entries |-> <<>>]
    ELSE LET x == ExtractKiroData(line.message, line.level) IN
         IF x.exc # "none" THEN [exc |-> x.exc, entries |-> <<>>]
         ELSE [exc |-> "none",
               entries |-> <<ParsedEntry(KiroTimestamps[line.ts],
                                         DetermineEventType(line.message, x.data),
                                         x.data, line, path)>>]

\* parse: one iteration of the for loop; "except Exception: continue"
KiroLineOutcome(line, path) ==
    IF line.shape = "blank" THEN [exc |-> "none", entries |-> <<>>]
    ELSE LET body == ParseKiroLogLine(line, path) IN
         IF body.exc \in Exceptions THEN [exc |-> "none", entries |-> <<>>] ELSE body

\* parse(file_path), run to the end of the stream
RECURSIVE KiroParse(_, _)
KiroParse(lines, path) ==
    IF lines = <<>> THEN [exc |-> "none", entries |-> <<>>]
    ELSE IF Head(lines).shape = "undecodable"
    THEN [exc |-> "UnicodeDecodeError", entries |-> <<>>]
    ELSE LET out == KiroLineOutcome(Head(lines), path)
             rest == KiroParse(Tail(lines), path)
         IN  [exc |-> rest.exc, entries |-> out.entries \o rest.entries]

KiroPath == FilePath("test_log", ".log", TRUE)

\* _parse_kiro_log_line is called on the line
KiroParseLine ==
    /\ kiro_pc = "line"
    /\ LET out == ParseKiroLogLine(kiro_line, KiroPath) IN
        /\ kiro_entry' = out.entries
        /\ kiro_pc' = IF out.exc # "none" THEN "raised"
                      ELSE IF out.entries = <<>> THEN "none"
                      ELSE "entry"
    /\ UNCHANGED <<kiro_line, jsonVars, registryVars, serviceVars, analyzeVars, filterVars, fileVars, textVars, envVars>>

(***************************************************************************)
(* KiroLogParser._parse_kiro_log_line on any line                          *)
(***************************************************************************)
Payloads ==
    {NoPayload, InvalidPayload} \cup
    {ObjectPayload(id, state, uses) :
        id \in BOOLEAN, state \in {"absent", "with_id", "number"},
        uses \in {"absent", "empty", "named"}}

\* "toolUses" in the message implies "toolUse" in it; a key of the payload
\* may be written with escapes, and then its text is not in the message
Messages ==
    {m \in [agent_controller : BOOLEAN, triggered : BOOLEAN,
            autonomy : {"", "Supervised"}, tool_action : BOOLEAN,
            toolUse : BOOLEAN, toolUses : BOOLEAN, terminal : BOOLEAN,
            executing : BOOLEAN, user_input : BOOLEAN, llm_command : BOOLEAN,
            payload : Payloads] :
        /\ m.toolUses => m.toolUse
        /\ m.autonomy # "" => m.triggered
        /\ m.executing => m.terminal}

ExampleLine ==
    KiroLine("2025-11-19 23:03:58.159", "info",
             [agent_controller |-> TRUE, triggered |-> TRUE, autonomy |-> "Supervised",
              tool_action |-> FALSE, toolUse |-> FALSE, toolUses |-> FALSE,
              terminal |-> FALSE, executing |-> FALSE, user_input |-> FALSE,
              llm_command |-> FALSE, payload |-> NoPayload])

KiroLines ==
    {KiroLine("2025-11-19 23:03:58.159", level, m) :
        level \in DOMAIN KiroLevels, m \in Messages} \cup
    {KiroLine("2025-13-01 00:00:00.000", "info", ExampleLine.message),
     Malformed, RequestLine}

InitKiro ==
    /\ kiro_line \in KiroLines
    /\ kiro_entry = <<>>
    /\ kiro_pc = "line"
    /\ JsonIdle /\ RegistryIdle /\ ServiceIdle /\ FileIdle /\ TextIdle /\ EnvIdle
    /\ AnalyzeIdle /\ FilterIdle

NextKiro == KiroParseLine

SpecKiro == InitKiro /\ [][NextKiro]_vars

\* the flags extracted from the line
AgentEvent == kiro_line.message.agent_controller
AgentStart == AgentEvent /\ kiro_line.message.triggered
ToolInvocation == kiro_line.message.tool_action \/ kiro_line.message.toolUse
TerminalCommand == kiro_line.message.terminal /\ kiro_line.message.executing
ConversationId ==
    /\ kiro_line.message.payload.braces = "object"
    /\ \/ kiro_line.message.payload.conversationId
       \/ kiro_line.message.payload.conversationState = "with_id"
AssistantToolUsage ==
    \/ kiro_line.message.toolUses
    \/ /\ kiro_line.message.payload.braces = "object"
       /\ kiro_line.message.payload.toolUses = "named"

\* the precedence: the event type of the first rule whose condition holds
Precedence ==
    << <<AgentStart, "conversation_start">>,
       <<AgentEvent, "agent_event">>,
       <<ToolInvocation, "tool_invocation">>,
       <<TerminalCommand, "terminal_command">>,
       <<ConversationId /\ AssistantToolUsage, "assistant_response">>,
       <<ConversationId /\ kiro_line.message.user_input, "user_request">>,
       <<ConversationId, "conversation_message">>,
       <<kiro_line.message.llm_command, "llm_request">>,
       <<kiro_line.level \in {"error", "ERROR"}, "error">>,
       <<kiro_line.level = "warning", "warning">>,
       <<TRUE, "info">> >>

FirstRule ==
    CHOOSE i \in 1..Len(Precedence) :
        Precedence[i][1] /\ \A j \in 1..(i - 1) : ~Precedence[j][1]

\* C8: the entry of a line has the event type of the first rule of the
\* precedence that applies to the flags extracted from it, whatever the
\* combination of flags, and the autonomy mode of an agent start.
C8_EventTypePrecedence ==
    kiro_pc = "entry" =>
        /\ Len(kiro_entry) = 1
        /\ kiro_entry[1].event_type = Precedence[FirstRule][2]
        /\ (AgentStart /\ kiro_line.message.autonomy = "Supervised") =>
              kiro_entry[1].data["autonomy_mode"] = StrV("Supervised", 10)

\* the line "... [info] [agent-controller] Triggered new agent:
\* spec-generation (autonomyMode=Supervised)" gives a conversation_start
C8_Witness ==
    /\ kiro_pc = "entry"
    /\ kiro_line = ExampleLine
    /\ Len(kiro_entry) = 1
    /\ kiro_entry[1].event_type = "conversation_start"
    /\ kiro_entry[1].data["autonomy_mode"] = StrV("Supervised", 10)

(***************************************************************************)
(* PlainTextLogParser (parsers/text_parser.py)                             *)
(***************************************************************************)
\* a line one of the three class patterns matches, with the groups it captures
TextLine(pattern, ts, event_type, message) ==
    [shape |-> "text", pattern |-> pattern, ts |-> ts, event_type |-> event_type,
     message |-> message]

\* _parse_timestamp(timestamp_str), for the texts it accepts
TextTimestamps ==
    ("2025-11-19T10:00:00" :> Naive(Hour(10))) @@
    ("2025-11-19 11:00:00" :> Naive(Hour(11))) @@
    ("2025-11-19T12:00:00Z" :> Aware(Hour(12), 0))

\* the three class patterns, in the order __init__ lists them
BuiltinPatterns == <<"PATTERN_BRACKETED", "PATTERN_COLON", "PATTERN_DASH">>

\* patterns a caller compiles and hands to add_pattern
CustomPatterns == {"PATTERN_PIPE", "PATTERN_LOOSE"}

\* a line that patterns of the caller match as well, with the named groups
\* each of them captures: a pattern may lack a group, and an optional group
\* that took no part in the match is None
AlsoMatching(line, groups) == line @@ [custom |-> groups]

\* pattern.match(line).groupdict(): <<>> when the pattern does not match
Match(pattern, line) ==
    IF line.shape = "text" /\ line.pattern = pattern
    THEN <<[timestamp |-> line.ts, event_type |-> line.event_type,
            message |-> line.message]>>
    ELSE IF "custom" \in DOMAIN line /\ pattern \in DOMAIN line.custom
    THEN <<line.custom[pattern]>>
    ELSE <<>>

\* groups.get(key, default)
GroupsGet(groups, key, default) ==
    IF key \in DOMAIN groups THEN groups[key] ELSE default

\* text.strip(), for the captured texts that have blanks around them
Stripped == (" INFO " :> StrV("INFO", 4))
Strip(v) == IF v.s \in DOMAIN Stripped THEN Stripped[v.s] ELSE v

\* _parse_timestamp(timestamp_str): <<>> for None
TextParseTimestamp(timestamp_str) ==
    IF timestamp_str \in DOMAIN TextTimestamps
    THEN <<TextTimestamps[timestamp_str]>> ELSE <<>>

\* the body of "if match:": nothing when the timestamp does not parse
\* (break), nothing when a group is None (strip raises AttributeError,
\* which except Exception swallows before break), else the entry yielded
MatchedEntry(groups, line, path) ==
    LET timestamp == TextParseTimestamp(GroupsGet(groups, "timestamp", ""))
        event_type == GroupsGet(groups, "event_type", StrV("unknown", 7))
        message == GroupsGet(groups, "message", StrV("", 0))
    IN  IF timestamp = <<>> THEN <<>>
        ELSE IF event_type = NoneV \/ message = NoneV THEN <<>>
        ELSE <<ParsedEntry(timestamp[1], Strip(event_type).s,
                           [message |-> Strip(message),
                            event_type |-> Strip(event_type)],
                           line, path)>>

\* the positions of the patterns that match the line
MatchingPatterns(ps, line) == {i \in 1..Len(ps) : Match(ps[i], line) # <<>>}

FirstMatchLast(ps, line) ==
    IF MatchingPatterns(ps, line) = {} THEN 0
    ELSE CHOOSE i \in MatchingPatterns(ps, line) :
             \A j \in MatchingPatterns(ps, line) : j <= i

\* "for pattern in self.patterns: match = pattern.match(line); if match:":
\* the position the loop stops at, every path of the if ending in break;
\* 0 when the loop runs to its else
FirstMatch(ps, line) ==
    IF MatchingPatterns(ps, line) = {} THEN 0
    ELSE CHOOSE i \in MatchingPatterns(ps, line) :
             \A j \in MatchingPatterns(ps, line) : i <= j

\* the for loop over the patterns, for a line that is not blank: the
\* patterns it matched against the line, and what it yielded
TryPatterns(ps, line, path) ==
    LET n == FirstMatch(ps, line)
    IN  IF n = 0 THEN [tried |-> ps, entries |-> <<>>]
        ELSE [tried |-> SubSeq(ps, 1, n),
              entries |-> MatchedEntry(Match(ps[n], line)[1], line, path)]

\* parse: one iteration of the for loop over the lines, in a parser that
\* has the three class patterns; a blank line is skipped
TextLineOutcome(line, path) ==
    IF line.shape = "blank" THEN [exc |-> "none", entries |-> <<>>]
    ELSE [exc |-> "none", entries |-> TryPatterns(BuiltinPatterns, line, path).entries]

\* parse(file_path), run to the end of the stream
RECURSIVE TextParse(_, _)
TextParse(lines, path) ==
    IF lines = <<>> THEN [exc |-> "none", entries |-> <<>>]
    ELSE IF Head(lines).shape = "undecodable"
    THEN [exc |-> "UnicodeDecodeError", entries |-> <<>>]
    ELSE LET out == TextLineOutcome(Head(lines), path)
             rest == TextParse(Tail(lines), path)
         IN  [exc |-> rest.exc, entries |-> out.entries \o rest.entries]

(***************************************************************************)
(* The files on disk                                                       *)
(***************************************************************************)
BracketedLine ==
    TextLine("PATTERN_BRACKETED", "2025-11-19T10:00:00", StrV("INFO", 4), StrV("started", 7))
ColonLine ==
    TextLine("PATTERN_COLON", "2025-11-19 11:00:00", StrV("request", 7), StrV("sent", 4))
NoTimeLine == TextLine("PATTERN_BRACKETED", "yesterday", StrV("info", 4), StrV("late", 4))

\* a line whose text contains "kiro" (in any case) or "CodeWhisperer"
Mentioning(line) == line @@ [mentions_kiro |-> TRUE]
MentionsKiro(line) == "mentions_kiro" \in DOMAIN line

ActiveLine ==
    Mentioning(KiroLine("2025-11-19 10:00:00.000", "info",
                        [ExampleLine.message EXCEPT !.agent_controller = FALSE,
                                                    !.triggered = FALSE,
                                                    !.autonomy = ""]))

\* the existing files, by name, with their lines
Disk ==
    [valid_json |-> <<RequestLine, Malformed, ValidLine>>,
     app_log |-> <<RequestLine, BracketedLine>>,
     text_log |-> <<BracketedLine, ColonLine, Malformed>>,
     notes_txt |-> <<NoTimeLine, ColonLine>>,
     data_csv |-> <<Malformed>>,
     latin1_log |-> <<Undecodable, BracketedLine>>,
     kiro_logs_log |-> <<ExampleLine, Blank, ActiveLine>>,
     agent_log |-> <<ActiveLine, ExampleLine>>,
     blank_first_log |-> <<Blank, RequestLine>>,
     broken_json |-> <<RequestLine, Undecodable, ValidLine>>]

\* the paths: valid.json, app.log, ..., "kiro.kiroAgent/Kiro Logs.log", and
\* missing.json, which does not exist
Paths ==
    {FilePath("valid_json", ".json", FALSE), FilePath("app_log", ".log", FALSE),
     FilePath("text_log", ".LOG", FALSE), FilePath("notes_txt", ".txt", FALSE),
     FilePath("data_csv", ".csv", FALSE), FilePath("latin1_log", ".log", FALSE),
     FilePath("kiro_logs_log", ".log", TRUE), FilePath("agent_log", ".log", FALSE),
     FilePath("blank_first_log", ".log", FALSE), FilePath("broken_json", ".json", FALSE),
     FilePath("missing_json", ".json", FALSE)}

\* file_path.exists()
Exists(path) == path.name \in DOMAIN Disk

\* file_path.suffix.lower()
Suffix(path) == Lower(path.suffix)

\* the first n lines of the file
FirstLines(path, n) ==
    LET lines == Disk[path.name] IN
    SubSeq(lines, 1, IF Len(lines) < n THEN Len(lines) ELSE n)

(***************************************************************************)
(* can_parse of the three parsers                                          *)
(***************************************************************************)
Accept == [exc |-> "none", accepts |-> TRUE]
Reject == [exc |-> "none", accepts |-> FALSE]

\* JSONLogParser.can_parse: json.JSONDecodeError and IOError are caught,
\* the UnicodeDecodeError of readline is not
JsonCanParse(path) ==
    IF Suffix(path) \in {".json", ".jsonl"} THEN Accept
    ELSE IF Suffix(path) # ".log" THEN Reject
    ELSE IF ~Exists(path) THEN Reject
    ELSE LET first == FirstLines(path, 1) IN
         IF first = <<>> THEN Reject
         ELSE IF first[1].shape = "undecodable"
         THEN [exc |-> "UnicodeDecodeError", accepts |-> FALSE]
         ELSE IF first[1].shape = "json" THEN Accept
         ELSE Reject

\* PlainTextLogParser.can_parse
TextCanParse(path) == IF Suffix(path) \in {".log", ".txt"} THEN Accept ELSE Reject

SniffLines == 5

\* KiroLogParser.can_parse: IOError and UnicodeDecodeError are caught
KiroCanParse(path) ==
    IF path.vendor THEN Accept
    ELSE IF Suffix(path) # ".log" THEN Reject
    ELSE IF ~Exists(path) THEN Reject
    ELSE LET first == FirstLines(path, SniffLines) IN
         IF \E i \in 1..Len(first) : first[i].shape = "undecodable" THEN Reject
         ELSE IF \E i \in 1..Len(first) : MentionsKiro(first[i]) THEN Accept
         ELSE Reject

ParserClasses == {"JSONLogParser", "PlainTextLogParser", "KiroLogParser"}

\* parser.can_parse(file_path)
CanParse(parser, path) ==
    IF parser = "JSONLogParser" THEN JsonCanParse(path)
    ELSE IF parser = "PlainTextLogParser" THEN TextCanParse(path)
    ELSE KiroCanParse(path)

\* parser.parse(file_path), run to the end
Parse(parser, path, tz) ==
    IF ~Exists(path) THEN [exc |-> "FileNotFoundError", entries |-> <<>>]
    ELSE IF parser = "JSONLogParser" THEN JsonParse(Disk[path.name], path, tz)
    ELSE IF parser = "PlainTextLogParser" THEN TextParse(Disk[path.name], path)
    ELSE KiroParse(Disk[path.name], path)

(***************************************************************************)
(* ParserRegistry (parsers/registry.py)                                    *)
(***************************************************************************)
NoParser == [exc |-> "none", parser |-> "None", index |-> 0]

RECURSIVE GetParserLastMatch(_, _)
GetParserLastMatch(ps, path) ==
    IF ps = <<>> THEN NoParser
    ELSE LET c == CanParse(ps[Len(ps)], path) IN
         IF c.exc # "none" THEN [exc |-> c.exc, parser |-> "None", index |-> 0]
         ELSE IF c.accepts THEN [exc |-> "none", parser |-> ps[Len(ps)], index |-> Len(ps)]
         ELSE GetParserLastMatch(SubSeq(ps, 1, Len(ps) - 1), path)

\* get_parser: the for loop from the i-th registered parser on
RECURSIVE GetParserFrom(_, _, _)
GetParserFrom(ps, path, i) ==
    IF i > Len(ps) THEN NoParser
    ELSE LET c == CanParse(ps[i], path) IN
         IF c.exc # "none" THEN [exc |-> c.exc, parser |-> "None", index |-> 0]
         ELSE IF c.accepts THEN [exc |-> "none", parser |-> ps[i], index |-> i]
         ELSE GetParserFrom(ps, path, i + 1)

\* get_parser(file_path): the exception a can_parse raised, or the parser
\* returned, with its position in _parsers ("None", 0 when none is returned)
GetParser(ps, path) == GetParserFrom(ps, path, 1)

MaxParsers == 3

\* register_parser(parser)
RegisterParser ==
    /\ svc_pc = "idle"
    /\ Len(parsers) < MaxParsers
    /\ \E parser \in ParserClasses : parsers' = Append(parsers, parser)
    /\ UNCHANGED <<lookup, jsonVars, kiroVars, serviceVars, analyzeVars, filterVars, fileVars, textVars, envVars>>

\* get_parser(file_path) is called; the call is kept with the number of
\* parsers registered at the time
GetParserCall ==
    /\ svc_pc = "idle"
    /\ \E path \in Paths :
          lookup' = <<[path |-> path, count |-> Len(parsers),
                       result |-> GetParser(parsers, path)]>>
    /\ UNCHANGED <<parsers, jsonVars, kiroVars, serviceVars, analyzeVars, filterVars, fileVars, textVars, envVars>>

InitRegistry ==
    /\ parsers = <<>>
    /\ lookup = <<>>
    /\ JsonIdle /\ KiroIdle /\ ServiceIdle /\ FileIdle /\ TextIdle /\ EnvIdle
    /\ AnalyzeIdle /\ FilterIdle

NextRegistry == RegisterParser \/ GetParserCall

SpecRegistry == InitRegistry /\ [][NextRegistry]_vars

\* ParserService.__init__: the default registration
DefaultRegistry == <<"JSONLogParser", "PlainTextLogParser">>

\* the registry as it was at the last get_parser call, and the call's path
Registered == SubSeq(parsers, 1, lookup[1].count)
Accepts(i) ==
    LET c == CanParse(Registered[i], lookup[1].path) IN c.exc = "none" /\ c.accepts
CanParseRaises(i) == CanParse(Registered[i], lookup[1].path).exc # "none"

\* the positions of the registered parsers that accept the path
Accepting == {i \in 1..Len(Registered) : Accepts(i)}

\* C9: every get_parser call returns the earliest registered parser whose
\* can_parse is true for the path, and None when no registered parser
\* accepts the path, so that a parser registered after an accepting one is
\* never returned; under the default registration a file both parsers
\* accept goes to the JSON parser.
C9_FirstMatchWins ==
    lookup # <<>> =>
        LET r == lookup[1].result IN
        /\ r.exc = "none"
        /\ IF Accepting = {}
           THEN r.parser = "None"
           ELSE /\ r.index \in Accepting
                /\ \A j \in Accepting : r.index <= j
                /\ r.parser = Registered[r.index]
        /\ (/\ Registered = DefaultRegistry
            /\ JsonCanParse(lookup[1].path) = Accept
            /\ TextCanParse(lookup[1].path) = Accept) =>
              r.parser = "JSONLogParser"

\* get_parser is first-match among the calls that return: the parser
\* returned accepts and none before it does, None is returned only when none
\* accepts, and the call returns whenever no can_parse raises before the
\* first acceptance
FirstMatchWhenReturned ==
    lookup # <<>> =>
        LET r == lookup[1].result IN
        /\ (r.exc = "none" /\ r.parser # "None") =>
              /\ r.index \in Accepting
              /\ \A j \in Accepting : r.index <= j
              /\ r.parser = Registered[r.index]
        /\ (r.exc = "none" /\ r.parser = "None") => Accepting = {}
        /\ r.exc # "none" =>
              \E i \in 1..Len(Registered) :
                  CanParseRaises(i) /\ \A j \in 1..i : ~Accepts(j)
        /\ (/\ Registered = DefaultRegistry
            /\ JsonCanParse(lookup[1].path) = Accept
            /\ TextCanParse(lookup[1].path) = Accept) =>
              r.parser = "JSONLogParser"

\* under the default registration app.log, which both parsers accept, goes
\* to the JSON parser
DefaultRegistrationGivesJson ==
    /\ lookup # <<>>
    /\ Registered = DefaultRegistry
    /\ lookup[1].path = FilePath("app_log", ".log", FALSE)
    /\ Accepts(1) /\ Accepts(2)
    /\ lookup[1].result.parser = "JSONLogParser"
    /\ lookup[1].result.index = 1

\* get_parser raises although a registered parser accepts the path
GetParserRaises ==
    /\ lookup # <<>>
    /\ lookup[1].result.exc = "UnicodeDecodeError"
    /\ Registered = DefaultRegistry
    /\ Accepts(2)

\* the lines of the file that are not blank, and whether the text is valid
\* as a single JSON value
NonEmptyLines(path) == SelectSeq(Disk[path.name], LAMBDA line : line.shape # "blank")
ValidJson(line) == line.shape = "json"

\* the call asked the JSON parser alone: what get_parser returned is what
\* JSONLogParser.can_parse answered
AskedJsonParser == lookup # <<>> /\ Registered = <<"JSONLogParser">>

\* C17: JSONLogParser.can_parse accepts a file if and only if its extension
\* signals JSON (.json, .jsonl), or it has the generic text extension and
\* its first non-empty line is valid as a single JSON value: a .log file
\* that starts with blank lines followed by a JSON line is accepted, one
\* whose first non-empty line is not JSON is rejected.
C17_JsonCanParse ==
    AskedJsonParser =>
        LET path == lookup[1].path
            r == lookup[1].result
        IN  /\ r.exc = "none"
            /\ r.parser = "JSONLogParser" <=>
                  \/ Suffix(path) \in {".json", ".jsonl"}
                  \/ /\ Suffix(path) = ".log"
                     /\ Exists(path)
                     /\ NonEmptyLines(path) # <<>>
                     /\ ValidJson(Head(NonEmptyLines(path)))

\* what can_parse does: when it returns, it has accepted exactly the JSON
\* extensions and the existing .log files whose first line is not blank and
\* is valid JSON; it raises exactly on an existing .log file whose first
\* line cannot be decoded
JsonCanParseReadsFirstLine ==
    AskedJsonParser =>
        LET path == lookup[1].path
            r == lookup[1].result
            first == IF Exists(path) THEN FirstLines(path, 1) ELSE <<>>
            sniffed == Suffix(path) = ".log" /\ first # <<>>
        IN  /\ r.exc # "none" <=> (sniffed /\ first[1] = Undecodable)
            /\ r.parser = "JSONLogParser" <=>
                  \/ Suffix(path) \in {".json", ".jsonl"}
                  \/ sniffed /\ ValidJson(first[1])

\* blank-first.log, a blank line and then a JSON line, is rejected; and
\* latin1.log makes can_parse raise
BlankFirstLineRejected ==
    /\ AskedJsonParser
    /\ lookup[1].path.name = "blank_first_log"
    /\ ValidJson(Head(NonEmptyLines(lookup[1].path)))
    /\ lookup[1].result = NoParser
CanParseRaisesOnBytes ==
    /\ AskedJsonParser
    /\ lookup[1].path.name = "latin1_log"
    /\ lookup[1].result.exc = "UnicodeDecodeError"

(***************************************************************************)
(* ParserService (parsers/parser_service.py)                               *)
(***************************************************************************)
\* the exceptions "except ValueError" catches
ValueErrors == {"ValueError", "UnicodeDecodeError", "JSONDecodeError"}

ParseFileCatchesNothing(exc) == FALSE

\* parse_file: "except Exception" around the for loop over parser.parse
ParseFileCatches(exc) == exc \in Exceptions

\* parse_file(file_path): the exception it raises, or the entries it returns;
\* an exception of the parser's extraction is caught and the entries
\* collected before it are returned
ParseFile(ps, path, tz) ==
    IF ~Exists(path) THEN [exc |-> "FileNotFoundError", entries |-> <<>>]
    ELSE LET got == GetParser(ps, path) IN
         IF got.exc # "none" THEN [exc |-> got.exc, entries |-> <<>>]
         ELSE IF got.parser = "None" THEN [exc |-> "ValueError", entries |-> <<>>]
         ELSE LET run == Parse(got.parser, path, tz) IN
              IF run.exc = "none" \/ ParseFileCatches(run.exc)
              THEN [exc |-> "none", entries |-> run.entries]
              ELSE run

ParseFilesCatchesMissingOnly(exc) == exc = "FileNotFoundError"

\* parse_files: "except (FileNotFoundError, ValueError)" and "except Exception"
ParseFilesCatches(exc) ==
    exc = "FileNotFoundError" \/ exc \in ValueErrors \/ exc \in Exceptions

\* ParserService(): a new registry with the default parsers
NewDefaultService ==
    /\ svc_pc = "new"
    /\ parsers' = Append(Append(<<>>, "JSONLogParser"), "PlainTextLogParser")
    /\ svc_pc' = "ready"
    /\ UNCHANGED <<lookup, file_paths, all_entries, path_idx, jsonVars, kiroVars,
                   analyzeVars, filterVars, fileVars, textVars, envVars>>

\* the registries given to ParserService(registry)
Registries == {<<>>, <<"KiroLogParser", "JSONLogParser", "PlainTextLogParser">>}

\* ParserService(registry)
NewService ==
    /\ svc_pc = "new"
    /\ parsers' \in Registries
    /\ svc_pc' = "ready"
    /\ UNCHANGED <<lookup, file_paths, all_entries, path_idx, jsonVars, kiroVars,
                   analyzeVars, filterVars, fileVars, textVars, envVars>>

MaxPaths == 3

\* the paths of the batches
BatchPaths ==
    {p \in Paths : p.name \in {"valid_json", "app_log", "text_log", "data_csv",
                               "latin1_log", "kiro_logs_log", "missing_json"}}

\* parse_files(file_paths) is called
ParseFilesCall ==
    /\ svc_pc = "ready"
    /\ file_paths' \in SeqsUpTo(BatchPaths, MaxPaths)
    /\ all_entries' = <<>>
    /\ path_idx' = 1
    /\ svc_pc' = "loop"
    /\ UNCHANGED <<parsers, lookup, jsonVars, kiroVars, analyzeVars, filterVars, fileVars, textVars, envVars>>

\* parse_files: one iteration of the for loop
ParseFilesNext ==
    /\ svc_pc = "loop"
    /\ path_idx <= Len(file_paths)
    /\ \E tz \in Offsets : \E out \in {ParseFile(parsers, file_paths[path_idx], tz)} :
          IF out.exc = "none"
          THEN /\ all_entries' = all_entries \o out.entries
               /\ path_idx' = path_idx + 1
               /\ svc_pc' = svc_pc
          ELSE IF ParseFilesCatches(out.exc)
          THEN /\ all_entries' = all_entries
               /\ path_idx' = path_idx + 1
               /\ svc_pc' = svc_pc
          ELSE /\ svc_pc' = "raised"
               /\ UNCHANGED <<all_entries, path_idx>>
    /\ UNCHANGED <<parsers, lookup, file_paths, jsonVars, kiroVars, analyzeVars, filterVars, fileVars, textVars, envVars>>

\* parse_files returns all_entries
ParseFilesReturn ==
    /\ svc_pc = "loop"
    /\ path_idx > Len(file_paths)
    /\ svc_pc' = "done"
    /\ UNCHANGED <<parsers, lookup, file_paths, all_entries, path_idx, jsonVars, kiroVars,
                   analyzeVars, filterVars, fileVars, textVars, envVars>>

InitParse ==
    /\ parsers = <<>>
    /\ lookup = <<>>
    /\ file_paths = <<>>
    /\ all_entries = <<>>
    /\ path_idx = 0
    /\ svc_pc = "new"
    /\ JsonIdle /\ KiroIdle /\ FileIdle /\ TextIdle /\ EnvIdle
    /\ AnalyzeIdle /\ FilterIdle

NextParse ==
    \/ NewDefaultService
    \/ NewService
    \/ ParseFilesCall
    \/ ParseFilesNext
    \/ ParseFilesReturn

SpecParse == InitParse /\ [][NextParse]_vars

\* the path is skipped: it is missing, or the registry gives no parser for it
Skipped(path) ==
    \/ ~Exists(path)
    \/ LET got == GetParser(parsers, path) IN got.exc # "none" \/ got.parser = "None"

\* the entries collected for a processed file: those its parser yields
Collected(path, tz) ==
    IF Skipped(path) THEN <<>> ELSE Parse(GetParser(parsers, path).parser, path, tz).entries

\* the concatenation of the entries collected for the first n paths
RECURSIVE Concatenation(_, _)
Concatenation(n, tzs) ==
    IF n = 0 THEN <<>>
    ELSE Concatenation(n - 1, tzs) \o Collected(file_paths[n], tzs[n])

\* C10: parse_files never aborts: after each path, skipped or processed,
\* it goes on to the next, and the list it builds and returns is the
\* concatenation, in the order of the paths, of the entries collected for
\* each processed file, in the order its parser yielded them.
C10_BatchNeverAborts ==
    /\ svc_pc # "raised"
    /\ svc_pc \in {"loop", "done"} =>
          /\ path_idx \in 1..(Len(file_paths) + 1)
          /\ svc_pc = "done" => path_idx = Len(file_paths) + 1
          /\ \E tzs \in [1..(path_idx - 1) -> Offsets] :
                all_entries = Concatenation(path_idx - 1, tzs)

\* a missing path and a path no parser accepts between two files: the
\* batch returns the entries of the two files, in order
C10_Witness ==
    /\ svc_pc = "done"
    /\ parsers = DefaultRegistry
    /\ Len(file_paths) = 3
    /\ file_paths[1].name = "valid_json"
    /\ file_paths[2].name \in {"missing_json", "data_csv"}
    /\ file_paths[3].name = "text_log"
    /\ Len(all_entries) = 4
    /\ \A i \in 1..2 : all_entries[i].source_file = file_paths[1]
    /\ \A i \in 3..4 : all_entries[i].source_file = file_paths[3]
    /\ all_entries[1].raw_line = RequestLine
    /\ all_entries[4].raw_line = ColonLine

(***************************************************************************)
(* ParserService.parse_file, entry by entry                                *)
(***************************************************************************)
\* what parser.parse does with one line of the file
LineOutcome(p, line, path, tz) ==
    IF line.shape = "undecodable" THEN [exc |-> "UnicodeDecodeError", entries |-> <<>>]
    ELSE IF p = "JSONLogParser" THEN JsonLineOutcome(line, path, tz)
    ELSE IF p = "PlainTextLogParser" THEN TextLineOutcome(line, path)
    ELSE KiroLineOutcome(line, path)

\* parse_file(file_path) is called: the existence check, the registry
\* lookup, and the generator parser.parse(file_path) is created
ParseFileCall ==
    /\ svc_pc = "ready"
    /\ file_pc = "idle"
    /\ \E path \in Paths, tz \in Offsets :
          /\ file_path' = path
          /\ local_tz' = tz
          /\ IF ~Exists(path)
             THEN /\ file_exc' = "FileNotFoundError"
                  /\ file_pc' = "raised"
                  /\ UNCHANGED <<lookup, file_parser, stream>>
             ELSE \E got \in {GetParser(parsers, path)} :
                  /\ lookup' = <<[path |-> path, count |-> Len(parsers), result |-> got]>>
                  /\ IF got.exc # "none"
                     THEN /\ file_exc' = got.exc
                          /\ file_pc' = "raised"
                          /\ UNCHANGED <<file_parser, stream>>
                     ELSE IF got.parser = "None"
                     THEN /\ file_exc' = "ValueError"
                          /\ file_pc' = "raised"
                          /\ UNCHANGED <<file_parser, stream>>
                     ELSE /\ file_parser' = got.parser
                          /\ stream' = Disk[path.name]
                          /\ file_pc' = "parsing"
                          /\ UNCHANGED file_exc
    /\ UNCHANGED <<file_entries, error_count, parsers, jsonVars, kiroVars, serviceVars,
                   analyzeVars, filterVars, textVars, envVars>>

\* the for loop asks the generator for its next entry: the parser reads a
\* line; an exception of the generator ends the loop in "except Exception"
ParseFileLine ==
    /\ file_pc = "parsing"
    /\ stream # <<>>
    /\ \E out \in {LineOutcome(file_parser, Head(stream), file_path, local_tz)} :
          IF out.exc = "none"
          THEN /\ file_entries' = file_entries \o out.entries
               /\ stream' = Tail(stream)
               /\ UNCHANGED <<error_count, file_exc, file_pc>>
          ELSE IF ParseFileCatches(out.exc)
          THEN /\ error_count' = error_count + 1
               /\ file_pc' = "returned"
               /\ UNCHANGED <<file_entries, stream, file_exc>>
          ELSE /\ file_exc' = out.exc
               /\ file_pc' = "raised"
               /\ UNCHANGED <<file_entries, stream, error_count>>
    /\ UNCHANGED <<file_path, file_parser, local_tz, jsonVars, kiroVars, registryVars,
                   serviceVars, analyzeVars, filterVars, textVars, envVars>>

\* the generator is exhausted: parse_file returns entries
ParseFileReturn ==
    /\ file_pc = "parsing"
    /\ stream = <<>>
    /\ file_pc' = "returned"
    /\ UNCHANGED <<file_path, file_parser, stream, file_entries, error_count, file_exc,
                   local_tz, jsonVars, kiroVars, registryVars, serviceVars, analyzeVars,
                   filterVars, textVars, envVars>>

NextFile ==
    \/ NewDefaultService
    \/ NewService
    \/ ParseFileCall
    \/ ParseFileLine
    \/ ParseFileReturn

SpecFile == InitParse /\ [][NextFile]_vars

\* the lines of the file the generator has read without raising
LinesRead ==
    LET lines == Disk[file_path.name] IN SubSeq(lines, 1, Len(lines) - Len(stream))

\* the entries the parser yields for the lines, in order
RECURSIVE YieldedFor(_)
YieldedFor(lines) ==
    IF lines = <<>> THEN <<>>
    ELSE YieldedFor(SubSeq(lines, 1, Len(lines) - 1))
         \o LineOutcome(file_parser, lines[Len(lines)], file_path, local_tz).entries

\* the parser's extraction has been started for the file
Extracting == file_pc # "idle" /\ file_parser # "None"

\* C11: once a parser's extraction has been started, an exception it raises
\* after yielding k records is not propagated by parse_file: parse_file
\* returns, and what it returns is exactly the k records yielded before the
\* exception, in the order yielded.
C11_PartialSuccessPreserved ==
    Extracting =>
        /\ file_pc \in {"parsing", "returned"}
        /\ file_exc = "none"
        /\ file_entries = YieldedFor(LinesRead)
        /\ error_count \in {0, 1}
        /\ error_count = 1 =>
              /\ file_pc = "returned"
              /\ stream # <<>>
              /\ LineOutcome(file_parser, Head(stream), file_path, local_tz).exc # "none"
        /\ (file_pc = "returned" /\ error_count = 0) => stream = <<>>

\* broken.json: one record, then a line that cannot be decoded; parse_file
\* returns the one record
C11_Witness ==
    /\ file_pc = "returned"
    /\ file_path.name = "broken_json"
    /\ file_parser = "JSONLogParser"
    /\ error_count = 1
    /\ stream = <<Undecodable, ValidLine>>
    /\ Len(file_entries) = 1
    /\ file_entries[1].raw_line = RequestLine

\* the positions of the registered parsers whose can_parse accepts the path
AcceptedBy(path) == {i \in 1..Len(parsers) : CanParse(parsers[i], path) = Accept}

\* parse_file raised before any parser's extraction was invoked
FailedHard ==
    /\ file_pc = "raised"
    /\ file_parser = "None"
    /\ stream = <<>>
    /\ file_entries = <<>>

\* C12: parse_file fails hard in exactly two cases, checked in this order:
\* the path does not exist (FileNotFoundError, raised before the registry is
\* consulted), and the path exists but no registered parser accepts it
\* (ValueError); in both no parser's extraction is invoked and no records are
\* returned, and in no other case does parse_file raise.
C12_TwoHardFailures ==
    file_pc # "idle" =>
        /\ ~Exists(file_path) =>
              FailedHard /\ file_exc = "FileNotFoundError" /\ lookup = <<>>
        /\ (Exists(file_path) /\ AcceptedBy(file_path) = {}) =>
              FailedHard /\ file_exc = "ValueError" /\ lookup # <<>>
        /\ (Exists(file_path) /\ AcceptedBy(file_path) # {}) => file_pc # "raised"

\* the two hard failures are as stated whenever parse_file raises one of
\* them, and any other exception parse_file raises is one a can_parse raised
HardFailuresWhenCanParseReturns ==
    file_pc = "raised" =>
        /\ FailedHard
        /\ file_exc = "FileNotFoundError" <=> ~Exists(file_path)
        /\ file_exc = "FileNotFoundError" => lookup = <<>>
        /\ file_exc = "ValueError" => Exists(file_path) /\ AcceptedBy(file_path) = {}
        /\ file_exc \notin {"FileNotFoundError", "ValueError"} =>
              \E i \in 1..Len(parsers) : CanParse(parsers[i], file_path).exc = file_exc

\* latin1.log under the default registration: the text parser accepts
\* the file, and parse_file raises the UnicodeDecodeError of the JSON
\* parser's can_parse
ParseFileRaisesThirdCase ==
    /\ file_pc = "raised"
    /\ parsers = DefaultRegistry
    /\ file_path.name = "latin1_log"
    /\ TextCanParse(file_path) = Accept
    /\ file_exc = "UnicodeDecodeError"

(***************************************************************************)
(* analyze with the six standard calculators, on records of every shape    *)
(***************************************************************************)
MaxRecords == 3

\* records by what their data holds for the calculators
TimedRecord(v) == LogEntry(Naive(0), "request", [response_time |-> v])
SecondsRecord(v) == LogEntry(Naive(0), "response", [response_time_seconds |-> v])
BothTimesRecord(v, w) ==
    LogEntry(Naive(1), "request", [response_time |-> v, response_time_seconds |-> w])

OutcomeRecord(status) == LogEntry(Naive(0), "request", [status |-> StrV(status, 6)])
InfiniteLinesRecord ==
    LogEntry(Naive(0), "request",
             [status |-> StrV("success", 7), lines_generated |-> InfV,
              language |-> StrV("python", 6)])

RecordPool ==
    {TimedRecord(StrV("0.1", 3)), TimedRecord(IntV(2)), TimedRecord(IntV(0 - 1)),
     SecondsRecord(StrV("0", 1)), BothTimesRecord(NoneV, IntV(1)),
     RequestShape(0), ToolShape(1), OutcomeRecord("failed"), InfiniteLinesRecord}

InitMetrics ==
    /\ calculators = StandardCalculators
    /\ entries \in SeqsUpTo(RecordPool, MaxRecords)
    /\ analysis_period = <<Naive(0), Naive(1)>>
    /\ aggregated = EmptyMap
    /\ idx = 0
    /\ pc = "idle"
    /\ metrics = NoMetrics
    /\ FilterIdle
    /\ ParserIdle

SpecMetrics == InitMetrics /\ [][NextAnalyze]_vars

\* the value the calculator probes in a record: response_time, and
\* response_time_seconds only when response_time is absent
Probed(e) ==
    IF "response_time" \in DOMAIN e.data THEN <<e.data["response_time"]>>
    ELSE IF "response_time_seconds" \in DOMAIN e.data
    THEN <<e.data["response_time_seconds"]>>
    ELSE <<>>

\* the records whose probed value is a non-negative number
Sampled ==
    {i \in 1..Len(entries) :
        /\ Probed(entries[i]) # <<>>
        /\ FloatConverts(Probed(entries[i])[1])
        /\ FloatOf(Probed(entries[i])[1]).n >= 0}
SampleOf(i) == FloatOf(Probed(entries[i])[1])

Average == metrics["avg_response_time_seconds"]
Fastest == metrics["fastest_response_time_seconds"]
Slowest == metrics["slowest_response_time_seconds"]

\* the timing fields are those of the accepted samples: zero without a
\* sample, else the minimum and the maximum of the samples
TimingExtremes ==
    pc = "done" =>
        IF Sampled = {}
        THEN Average = Scalar(0) /\ Fastest = Scalar(0) /\ Slowest = Scalar(0)
        ELSE /\ \E i \in Sampled : Fastest = FloatValue(SampleOf(i))
             /\ \A i \in Sampled : FloatLeq(Fastest, SampleOf(i))
             /\ \E i \in Sampled : Slowest = FloatValue(SampleOf(i))
             /\ \A i \in Sampled : FloatLeq(SampleOf(i), Slowest)
             /\ Average.n >= 0

\* C13: ResponseTimeCalculator accepts only the non-negative numeric
\* samples probed from response_time, then response_time_seconds; without an
\* accepted sample the average, the fastest and the slowest are all zero;
\* otherwise the fastest is the minimum and the slowest the maximum of the
\* samples and the average is their mean, so fastest <= average <= slowest.
C13_TimingOrdered ==
    /\ TimingExtremes
    /\ pc = "done" => FloatLeq(Fastest, Average) /\ FloatLeq(Average, Slowest)

\* three samples of 0.1: the sum is rounded, and the average falls outside
\* the samples
AverageOutsideSamples ==
    /\ pc = "done"
    /\ entries = <<TimedRecord(StrV("0.1", 3)), TimedRecord(StrV("0.1", 3)),
                   TimedRecord(StrV("0.1", 3))>>
    /\ Fastest = Slowest
    /\ Average # Fastest

\* the 'request' records the success rate counts as successes and failures
Successes ==
    {i \in 1..Len(entries) :
        /\ entries[i].event_type = "request"
        /\ \/ DataGet(entries[i].data, "status", NoneV) = StrV("success", 7)
           \/ Truthy(DataGet(entries[i].data, "success", NoneV))}
Failures ==
    {i \in 1..Len(entries) :
        /\ entries[i].event_type = "request"
        /\ i \notin Successes
        /\ \/ DataGet(entries[i].data, "status", NoneV) \in {StrV("failed", 6), StrV("error", 5)}
           \/ Truthy(DataGet(entries[i].data, "failed", NoneV))}

\* every value of the keyed counter is a non-negative integer
CountsNatural(key) ==
    /\ IsDict(metrics[key])
    /\ \A s \in DOMAIN metrics[key].d : metrics[key].d[s].num /\ metrics[key].d[s].v \in Nat

SuccessRate == metrics["success_rate_percent"]

\* the keyed counters are non-negative integers and the rate is in [0, 100]
CountersAndRateInRange ==
    pc = "done" =>
        /\ \A key \in {"tool_usage", "lines_by_language", "daily_breakdown"} :
              CountsNatural(key)
        /\ SuccessRate.n >= 0 /\ SuccessRate.n <= 100 * SuccessRate.den

\* C14: in the Metrics Record of analyze with the six standard calculators,
\* every value of tool_usage, lines_by_language and daily_breakdown is a
\* non-negative integer, and success_rate_percent is in [0, 100] and equals
\* successes / (successes + failures) * 100 over the 'request' records, 0
\* when no outcome is tracked.
C14_CountersAndSuccessRate ==
    /\ CountersAndRateInRange
    /\ pc = "done" =>
          SuccessRate =
              IF Successes \cup Failures = {} THEN Scalar(0)
              ELSE Frac(100 * Cardinality(Successes),
                        Cardinality(Successes) + Cardinality(Failures))

\* a successful request whose lines_generated is infinite: the rate is 0
SuccessRateLost ==
    /\ pc = "done"
    /\ entries = <<InfiniteLinesRecord>>
    /\ Successes = {1}
    /\ SuccessRate = Scalar(0)

(***************************************************************************)
(* analyze on records that carry character counts and tool names           *)
(***************************************************************************)
AliasRecord ==
    LogEntry(Naive(0), "tool_invocation",
             [tool_name |-> StrV("", 0), tool |-> StrV("a", 1),
              character_count |-> IntV(0 - 1), characters |-> IntV(2),
              content |-> StrV("xx", 2)])
ProcessedRecord ==
    LogEntry(Naive(0), "response",
             [chars_processed |-> StrV("2", 1), request |-> StrV("abc", 3),
              tool_name |-> StrV("b", 1)])
ContentRecord ==
    LogEntry(Naive(1), "request", [content |-> ListV(2), request |-> StrV("abc", 3)])
InfiniteCharactersRecord == LogEntry(Naive(0), "request", [characters |-> InfV])
UnhashableToolRecord == LogEntry(Naive(0), "tool_invocation", [tool |-> ListV(1)])

TallyPool ==
    {RequestShape(0), ToolShape(1), AliasRecord, ProcessedRecord, ContentRecord,
     InfiniteCharactersRecord, UnhashableToolRecord}

InitTally ==
    /\ calculators = StandardCalculators
    /\ entries \in SeqsUpTo(TallyPool, MaxRecords)
    /\ analysis_period = <<Naive(0), Naive(1)>>
    /\ aggregated = EmptyMap
    /\ idx = 0
    /\ pc = "idle"
    /\ metrics = NoMetrics
    /\ FilterIdle
    /\ ParserIdle

SpecTally == InitTally /\ [][NextAnalyze]_vars

CharacterAliases == <<"character_count", "characters", "chars_processed">>
PresentCharacterAliases(e) ==
    {i \in 1..Len(CharacterAliases) : CharacterAliases[i] \in DOMAIN e.data}

\* the length of a field that holds text, <<>> when absent or not text
TextLength(e, key) ==
    IF key \in DOMAIN e.data /\ e.data[key].k = "str" THEN <<e.data[key].n>> ELSE <<>>

\* what one record contributes: the integer value of its first present
\* alias if positive; without any alias, the length of content, else of
\* request
Contribution(e) ==
    IF PresentCharacterAliases(e) # {}
    THEN LET v == e.data[CharacterAliases[First(PresentCharacterAliases(e))]]
         IN  IF Converts(v) /\ Converted(v) > 0 THEN Converted(v) ELSE 0
    ELSE IF TextLength(e, "content") # <<>> THEN TextLength(e, "content")[1]
    ELSE IF TextLength(e, "request") # <<>> THEN TextLength(e, "request")[1]
    ELSE 0

RECURSIVE Contributions(_)
Contributions(n) ==
    IF n = 0 THEN 0 ELSE Contribution(entries[n]) + Contributions(n - 1)

TotalCharactersProcessed == metrics["total_characters_processed"]

\* C19: CharacterCountCalculator adds, for each record, a contribution from
\* exactly one source: the first key present among character_count,
\* characters, chars_processed (its integer value if positive, otherwise
\* nothing), and only when none of those keys is present, the length of the
\* content text field or else of the request text field; the total is the
\* sum of these contributions and is never negative.
C19_CharacterTotal ==
    pc = "done" =>
        /\ TotalCharactersProcessed = Scalar(Contributions(Len(entries)))
        /\ TotalCharactersProcessed.n >= 0

\* the total is the sum of the contributions whenever int() raises nothing
\* but ValueError and TypeError, and it is never negative
CharacterTotalUnlessOverflow ==
    pc = "done" =>
        /\ ~CharacterCountRaises(entries) =>
              TotalCharactersProcessed = Scalar(Contributions(Len(entries)))
        /\ TotalCharactersProcessed.n >= 0

\* a record counting 5 characters, then one whose characters is infinite:
\* the total is 0
CharactersLost ==
    /\ pc = "done"
    /\ entries = <<RequestShape(0), InfiniteCharactersRecord>>
    /\ Contributions(Len(entries)) = 5
    /\ TotalCharactersProcessed = Scalar(0)

\* the tool name a record is tallied under: tool_name, or tool when
\* tool_name is absent or empty, for a tool_invocation; tool for any other
\* event type
ToolKey(e) ==
    IF e.event_type = "tool_invocation"
    THEN IF "tool_name" \in DOMAIN e.data /\ Truthy(e.data["tool_name"])
         THEN e.data["tool_name"]
         ELSE DataGet(e.data, "tool", NoneV)
    ELSE DataGet(e.data, "tool", NoneV)

\* the records that have a non-empty tool name, and those tallied under s
Named == {i \in 1..Len(entries) : Truthy(ToolKey(entries[i]))}
NamedAs(s) == {i \in Named : DictKey(ToolKey(entries[i])) = s}

ToolUsage == metrics["tool_usage"]

RECURSIVE SumCounts(_, _)
SumCounts(d, S) ==
    IF S = {} THEN 0
    ELSE LET s == CHOOSE x \in S : TRUE IN d[s].v + SumCounts(d, S \ {s})

\* every count is a positive integer, and the counts sum to at most the
\* number of records
CountsPositive ==
    /\ IsDict(ToolUsage)
    /\ \A s \in DOMAIN ToolUsage.d : ToolUsage.d[s].num /\ ToolUsage.d[s].v > 0
    /\ SumCounts(ToolUsage.d, DOMAIN ToolUsage.d) <= Len(entries)

\* each record with a non-empty tool name has added 1 to the count of that
\* name, and nothing else was added
TalliedByName ==
    /\ DOMAIN ToolUsage.d = {DictKey(ToolKey(entries[i])) : i \in Named}
    /\ \A s \in DOMAIN ToolUsage.d : ToolUsage.d[s] = Num(Cardinality(NamedAs(s)))

\* C20: ToolUsageCalculator adds at most 1 per record to exactly one tool
\* key: for a record with event_type 'tool_invocation' the key is its
\* tool_name field, or its tool field when tool_name is absent or empty;
\* for a record of any other event type the key is its tool field; a
\* record with no non-empty tool name adds nothing. Hence every count in
\* tool_usage is a positive integer and the counts sum to at most the
\* number of records.
C20_ToolTally == pc = "done" => (CountsPositive /\ TalliedByName)

\* the tally is by name whenever every tool name can be a dictionary key,
\* and the counts are positive and sum to at most the number of records
ToolTallyUnlessUnhashable ==
    pc = "done" =>
        /\ CountsPositive
        /\ ~ToolUsageRaises(entries) => TalliedByName

\* a tool_invocation named b, then one whose tool is a list: nothing is
\* tallied
TallyLost ==
    /\ pc = "done"
    /\ entries = <<ToolShape(1), UnhashableToolRecord>>
    /\ Named = {1, 2}
    /\ ToolUsage = DictVal(EmptyDict)

(***************************************************************************)
(* PlainTextLogParser.parse and add_pattern, line by line                  *)
(***************************************************************************)
MaxTextLines == 2
MaxPatterns == 5

TextPath == FilePath("text_log", ".log", FALSE)

DashLine ==
    TextLine("PATTERN_DASH", "2025-11-19T12:00:00Z", StrV("ERROR", 5), StrV("lost", 4))
PaddedLine ==
    TextLine("PATTERN_BRACKETED", "2025-11-19T10:00:00", StrV(" INFO ", 6), StrV("up", 2))

\* 2025-11-19T10:00:00|request|sent: only the caller's pipe pattern matches
PipeLine ==
    AlsoMatching(Malformed,
        "PATTERN_PIPE" :> [timestamp |-> "2025-11-19T10:00:00",
                           event_type |-> StrV("request", 7),
                           message |-> StrV("sent", 4)])
\* both patterns of the caller match: the pipe pattern captures a timestamp
\* that does not parse, the loose one a timestamp that does and no message
TwoWayLine ==
    AlsoMatching(Malformed,
        ("PATTERN_PIPE" :> [timestamp |-> "yesterday",
                            event_type |-> StrV("request", 7),
                            message |-> StrV("sent", 4)]) @@
        ("PATTERN_LOOSE" :> [timestamp |-> "2025-11-19 11:00:00",
                             event_type |-> StrV("loose", 5)]))
\* a bracketed line the loose pattern matches too, with other groups
OverlapLine ==
    AlsoMatching(BracketedLine,
        "PATTERN_LOOSE" :> [timestamp |-> "2025-11-19 11:00:00",
                            message |-> StrV("started", 7)])
\* the loose pattern matches with its optional event_type group left out
OptionalLine ==
    AlsoMatching(Malformed,
        "PATTERN_LOOSE" :> [timestamp |-> "2025-11-19 11:00:00",
                            event_type |-> NoneV,
                            message |-> StrV("late", 4)])

TextLines ==
    {BracketedLine, ColonLine, DashLine, NoTimeLine, PaddedLine, Blank, Malformed,
     Undecodable, PipeLine, TwoWayLine, OverlapLine, OptionalLine}

\* __init__ has run, and parse(file_path) has been called on some file: the
\* generator has not started
InitText ==
    /\ patterns = BuiltinPatterns
    /\ text_file \in SeqsUpTo(TextLines, MaxTextLines)
    /\ text_line_number = 0
    /\ tried = <<>>
    /\ text_yielded = <<>>
    /\ text_pc = "idle"
    /\ calculators = <<>>
    /\ AnalyzeIdle
    /\ FilterIdle
    /\ JsonIdle /\ KiroIdle /\ RegistryIdle /\ ServiceIdle /\ FileIdle /\ EnvIdle

\* add_pattern(pattern), by the caller: before the generator starts, while
\* it is suspended at a yield, or after it has ended
AddPattern ==
    /\ text_pc \in {"idle", "suspended", "done", "raised"}
    /\ Len(patterns) < MaxPatterns
    /\ \E pattern \in CustomPatterns : patterns' = Append(patterns, pattern)
    /\ UNCHANGED <<text_file, text_line_number, tried, text_yielded, text_pc, jsonVars,
                   kiroVars, registryVars, serviceVars, fileVars, analyzeVars, filterVars, envVars>>

\* parse: one iteration of "for line in stream_file_lines(file_path)"; the
\* generator is suspended when the iteration yields, and runs on otherwise
TextNextLine ==
    /\ text_pc \in {"idle", "suspended", "reading"}
    /\ text_line_number < Len(text_file)
    /\ LET line == text_file[text_line_number + 1] IN
        IF line.shape = "undecodable"
        THEN /\ text_pc' = "raised"
             /\ UNCHANGED <<text_line_number, tried, text_yielded>>
        ELSE IF line.shape = "blank"
        THEN /\ text_line_number' = text_line_number + 1
             /\ tried' = <<>>
             /\ text_pc' = "reading"
             /\ UNCHANGED text_yielded
        ELSE \E out \in {TryPatterns(patterns, line, TextPath)} :
             /\ text_line_number' = text_line_number + 1
             /\ tried' = out.tried
             /\ text_yielded' = text_yielded \o out.entries
             /\ text_pc' = IF out.entries = <<>> THEN "reading" ELSE "suspended"
    /\ UNCHANGED <<patterns, text_file, jsonVars, kiroVars, registryVars, serviceVars,
                   fileVars, analyzeVars, filterVars, envVars>>

\* the stream is exhausted: the generator returns
TextEnd ==
    /\ text_pc \in {"idle", "suspended", "reading"}
    /\ text_line_number = Len(text_file)
    /\ text_pc' = "done"
    /\ UNCHANGED <<patterns, text_file, text_line_number, tried, text_yielded, jsonVars,
                   kiroVars, registryVars, serviceVars, fileVars, analyzeVars, filterVars, envVars>>

NextText == AddPattern \/ TextNextLine \/ TextEnd

SpecText == InitText /\ [][NextText]_vars

\* the line a step of parse has just gone through
LineTaken == text_line_number' = text_line_number + 1
TakenLine == text_file[text_line_number']

\* the patterns of the parser that match the line taken, by position
Matchers == {i \in 1..Len(patterns) : Match(patterns[i], TakenLine) # <<>>}
\* the pattern that decides the line: the first of the matchers
Decider == CHOOSE i \in Matchers : \A j \in Matchers : i <= j
DeciderTimestamp == GroupsGet(Match(patterns[Decider], TakenLine)[1], "timestamp", "")

\* add_pattern appends: what was listed stays, in its place
PatternsOnlyAppended ==
    patterns' # patterns =>
        /\ Len(patterns') = Len(patterns) + 1
        /\ SubSeq(patterns', 1, Len(patterns)) = patterns
        /\ patterns'[Len(patterns')] \in CustomPatterns

\* the patterns are matched against the line in list order, up to and
\* including the first that matches, and no further
TriedUpToFirstMatch ==
    (LineTaken /\ TakenLine.shape # "blank") =>
        /\ Len(tried') <= Len(patterns)
        /\ tried' = SubSeq(patterns, 1, Len(tried'))
        /\ \A i \in 1..(Len(tried') - 1) : i \notin Matchers
        /\ Len(tried') < Len(patterns) => Len(tried') \in Matchers

\* at most one record per line, made of the groups of the deciding pattern;
\* none when no pattern matches or the decider's timestamp does not parse
AtMostOneRecord ==
    LineTaken =>
        /\ \/ text_yielded' = text_yielded
           \/ /\ Len(text_yielded') = Len(text_yielded) + 1
              /\ SubSeq(text_yielded', 1, Len(text_yielded)) = text_yielded
              /\ Matchers # {}
              /\ DeciderTimestamp \in DOMAIN TextTimestamps
              /\ text_yielded'[Len(text_yielded')].timestamp
                    = TextTimestamps[DeciderTimestamp]
              /\ text_yielded'[Len(text_yielded')].raw_line = TakenLine
        /\ (Matchers = {} \/ DeciderTimestamp \notin DOMAIN TextTimestamps)
              => text_yielded' = text_yielded

\* C18: PlainTextLogParser tries its patterns on each line in the fixed
\* order bracketed, ISO-timestamp-colon, ISO-timestamp-dash, followed by the
\* custom patterns in the order they were added (add_pattern appends and
\* never reorders or removes the built-in three); the first pattern that
\* matches decides the line and no later pattern is tried for it, so each
\* line yields at most one record, and a line matching no pattern or whose
\* matched timestamp cannot be parsed yields none.
C18_FirstPatternDecides ==
    /\ [](SubSeq(patterns, 1, Len(BuiltinPatterns)) = BuiltinPatterns)
    /\ [][PatternsOnlyAppended /\ TriedUpToFirstMatch /\ AtMostOneRecord]_vars

\* both custom patterns were added, the pipe pattern first; the line they
\* both match was decided by the pipe pattern, whose timestamp does not
\* parse: the loose pattern, which would have given a record, was not tried
C18_Witness ==
    /\ patterns = BuiltinPatterns \o <<"PATTERN_PIPE", "PATTERN_LOOSE">>
    /\ text_line_number = 2
    /\ text_file = <<OverlapLine, TwoWayLine>>
    /\ tried = BuiltinPatterns \o <<"PATTERN_PIPE">>
    /\ Len(text_yielded) = 1
    /\ text_yielded[1].event_type = "INFO"

(***************************************************************************)
(* analyze with the ActivityPatternCalculator, on records over some hours  *)
(***************************************************************************)
MaxPeakTime == 6
BurstSize == 2

PeakEvent(ts) == LogEntry(ts, "request", [message |-> StrV("x", 1)])

\* naive timestamps over the hours, and aware ones at either offset
PeakStamps ==
    {Naive(t) : t \in 0..MaxPeakTime} \cup {Aware(t, off) : t \in {1, 2}, off \in Offsets}

InitPeaks ==
    /\ calculators = <<Stub("ActivityPatternCalculator", EmptyMap)>>
    /\ entries \in SeqsUpTo({PeakEvent(ts) : ts \in PeakStamps}, MaxRecords)
    /\ analysis_period = <<Naive(0), Naive(MaxPeakTime)>>
    /\ aggregated = EmptyMap
    /\ idx = 0
    /\ pc = "idle"
    /\ metrics = NoMetrics
    /\ FilterIdle
    /\ ParserIdle

SpecPeaks == InitPeaks /\ [][NextAnalyze]_vars

PeakPeriods == metrics["peak_activity_periods"].l

\* the windows considered: they start on the hour of the earliest record
\* and at every hour after it, up to the latest record
WindowStarts ==
    IF entries = <<>> THEN {}
    ELSE LET first == FloorHour(MinTime(entries))
             hours == (Instant(MaxTimeOf(entries)) - Instant(first)) \div TicksPerHour
         IN  {PlusHours(first, h) : h \in 0..hours}
WindowCount(start) == CountIn(entries, start, PlusHours(start, WindowHours))
ReturnedStarts == {PeakPeriods[i][1] : i \in 1..Len(PeakPeriods)}

\* at most TopN pairs, each a window considered that holds records, with
\* end = start + WindowHours
PairsAreWindows ==
    /\ Len(PeakPeriods) <= TopN
    /\ \A i \in 1..Len(PeakPeriods) :
          /\ PeakPeriods[i][1] \in WindowStarts
          /\ PeakPeriods[i][1].wall % TicksPerHour = 0
          /\ PeakPeriods[i][2] = PlusHours(PeakPeriods[i][1], WindowHours)
          /\ WindowCount(PeakPeriods[i][1]) > 0

\* by count descending, ties in chronological order
OrderedByCount ==
    \A i, j \in 1..Len(PeakPeriods) :
        i < j =>
            \/ WindowCount(PeakPeriods[i][1]) > WindowCount(PeakPeriods[j][1])
            \/ /\ WindowCount(PeakPeriods[i][1]) = WindowCount(PeakPeriods[j][1])
               /\ Instant(PeakPeriods[i][1]) < Instant(PeakPeriods[j][1])

\* no window left out has a strictly higher count than a returned one
NoneLeftOutHigher ==
    \A start \in WindowStarts \ ReturnedStarts :
        \A i \in 1..Len(PeakPeriods) : WindowCount(start) <= WindowCount(PeakPeriods[i][1])

\* when there are records, the first returned window has the maximum count
FirstHasMaximum ==
    entries # <<>> =>
        /\ PeakPeriods # <<>>
        /\ \A start \in WindowStarts : WindowCount(start) <= WindowCount(PeakPeriods[1][1])

\* a burst: BurstSize records or more within one hour, every other record
\* at WindowHours or more from all the records
Apart(i, j) ==
    LET d == Instant(entries[i].timestamp) - Instant(entries[j].timestamp)
    IN  d >= WindowHours * TicksPerHour \/ 0 - d >= WindowHours * TicksPerHour
IsBurst(B) ==
    /\ Cardinality(B) >= BurstSize
    /\ \A i, j \in B :
          Instant(entries[i].timestamp) - Instant(entries[j].timestamp) < TicksPerHour
    /\ \A i \in (1..Len(entries)) \ B : \A j \in (1..Len(entries)) \ {i} : Apart(i, j)
Bursts == {B \in SUBSET (1..Len(entries)) : IsBurst(B)}

FirstContainsBurst ==
    \A B \in Bursts :
        /\ PeakPeriods # <<>>
        /\ \A i \in B :
              /\ Instant(PeakPeriods[1][1]) <= Instant(entries[i].timestamp)
              /\ Instant(entries[i].timestamp) < Instant(PeakPeriods[1][2])

PeaksAsClaimed ==
    /\ PairsAreWindows
    /\ OrderedByCount
    /\ NoneLeftOutHigher
    /\ FirstHasMaximum
    /\ FirstContainsBurst

\* C21: ActivityPatternCalculator considers the 2-hour windows that start
\* on the hour, at 1-hour steps, from the hour of the earliest record up to
\* the latest record, and returns at most 3 (start, end) pairs with
\* end = start + 2 hours, ordered by record count descending with ties in
\* chronological order; no window left out has a strictly higher count than
\* a returned one, so the first returned window has the maximum count; given
\* a burst of events within one hour and isolated single events elsewhere,
\* the first returned window contains the burst.
C21_PeakWindows == pc = "done" => PeaksAsClaimed

\* the same, for the record sequences whose timestamps Python can compare
PeaksWhenComparable ==
    (pc = "done" /\ ~MixedAwareness(entries)) => PeaksAsClaimed

\* two records in the same hour with an offset and a naive one three hours
\* later: no window is returned
BurstLost ==
    /\ pc = "done"
    /\ entries = <<PeakEvent(Aware(1, 0)), PeakEvent(Aware(1, 0)), PeakEvent(Naive(6))>>
    /\ Bursts = {{1, 2}}
    /\ PeakPeriods = <<>>

(***************************************************************************)
(* The analyze command on records as the parsers build them                *)
(***************************************************************************)
\* a record of a JSON file and a record of a text log, at a given hour
JsonRecord(t) ==
    ParsedEntry(Naive(t), "request",
                [timestamp |-> StrV("2025-11-19T10:00:00Z", 20),
                 event_type |-> StrV("request", 7), response_time |-> IntV(2)],
                RequestLine, JsonPath)
TextRecord(t) ==
    ParsedEntry(Aware(t, 1), "INFO",
                [message |-> StrV("started", 7), event_type |-> StrV("INFO", 4)],
                BracketedLine, TextPath)

ParsedRecords == {JsonRecord(t) : t \in 0..MaxTime} \cup {TextRecord(t) : t \in 0..MaxTime}

InitFrame ==
    /\ log_entries \in SeqsUpTo(ParsedRecords, MaxEntries)
    /\ start_date \in {Naive(t) : t \in 0..MaxTime}
    /\ end_date \in {Naive(t) : t \in 0..MaxTime}
    /\ filtered_entries = <<>>
    /\ cli_pc = "parsed"
    /\ calculators = StandardCalculators
    /\ entries = <<>>
    /\ analysis_period = <<Naive(0), Naive(0)>>
    /\ aggregated = EmptyMap
    /\ idx = 0
    /\ pc = "idle"
    /\ metrics = NoMetrics
    /\ ParserIdle

SpecFrame == InitFrame /\ [][Next]_vars

\* C22: no calculator and no step of analyze or filter_by_date_range
\* modifies its input: through every step of a filter or analyze call the
\* record sequence given to it has the same length and order, and every
\* record the same timestamp, event_type, fields, raw text and source
\* locator.
C22_InputsUnmodified ==
    [][/\ log_entries' = log_entries
       /\ pc # "idle" => entries' = entries
       /\ cli_pc # "parsed" => filtered_entries' = filtered_entries]_vars

\* analyze is over on two records the filter kept, the later one first: they
\* are in that order still
C22_Witness ==
    /\ pc = "done"
    /\ log_entries = <<JsonRecord(2), JsonRecord(0)>>
    /\ filtered_entries = log_entries
    /\ entries = log_entries
    /\ metrics["total_requests"] = Scalar(2)

(***************************************************************************)
(* ModelUsageCalculator (analyzers/model_usage_calculator.py)              *)
(***************************************************************************)
\* values of the result that are texts or None, and sub-values that are
TextVal(text) == [t |-> "text", n |-> 0, den |-> 1, l |-> <<text>>, d |-> EmptyDict]
NoneVal == [t |-> "none", n |-> 0, den |-> 1, l |-> <<>>, d |-> EmptyDict]
TextSub(text) == [num |-> FALSE, v |-> 0, text |-> text]

\* the file at settings_path: absent, not JSON, a JSON number, or a JSON
\* object with these keys
SettingsAbsent == [kind |-> "absent"]
SettingsInvalid == [kind |-> "invalid"]
SettingsNumber == [kind |-> "number"]
SettingsObject(fields) == [kind |-> "object", fields |-> fields]

\* the keys of model_info, and the settings key each is read from
ModelInfoKeys ==
    [modelSelection |-> "kiroAgent.modelSelection",
     agentModelSelection |-> "kiroAgent.agentModelSelection",
     agentAutonomy |-> "kiroAgent.agentAutonomy"]

\* _extract_model_from_settings: "key in settings" on a number raises
\* TypeError, which except (json.JSONDecodeError, IOError) does not catch
ExtractModelRaises(file) == file.kind = "number"
ExtractModelFromSettings(file) ==
    [k \in DOMAIN ModelInfoKeys |->
        IF file.kind = "object" /\ ModelInfoKeys[k] \in DOMAIN file.fields
        THEN TextSub(file.fields[ModelInfoKeys[k]]) ELSE NonNum]

\* a context mapping {'model': text}
ContextV(text, len) == [k |-> "dict", n |-> len, s |-> text]

\* the model name of an entry: the first of model, model_name, llm_model,
\* ai_model present, else, when that is empty, the model of the context
ModelNameOf(data) ==
    LET model_name ==
            IF "model" \in DOMAIN data THEN data["model"]
            ELSE IF "model_name" \in DOMAIN data THEN data["model_name"]
            ELSE IF "llm_model" \in DOMAIN data THEN data["llm_model"]
            ELSE IF "ai_model" \in DOMAIN data THEN data["ai_model"]
            ELSE NoneV
    IN  IF ~Truthy(model_name) /\ "context" \in DOMAIN data /\ data["context"].k = "dict"
        THEN IF data["context"].n > 0
             THEN StrV(data["context"].s, data["context"].n) ELSE NoneV
        ELSE model_name

\* model_counts[model_name] = ... raises TypeError on an unhashable name
TrackModelUsageRaises(es) ==
    \E i \in 1..Len(es) :
        Truthy(ModelNameOf(es[i].data)) /\ ~Hashable(ModelNameOf(es[i].data))

RECURSIVE TrackModelUsage(_, _)
TrackModelUsage(model_counts, es) ==
    IF es = <<>> THEN model_counts
    ELSE LET model_name == ModelNameOf(Head(es).data) IN
         TrackModelUsage(IF Truthy(model_name) /\ Hashable(model_name)
                         THEN Bump(model_counts, DictKey(model_name), 1)
                         ELSE model_counts,
                         Tail(es))

ModelValue(sub) == IF sub = NonNum THEN NoneVal ELSE TextVal(sub.text)

ModelUsageRaises(es, file) == ExtractModelRaises(file) \/ TrackModelUsageRaises(es)
ModelUsageCalculate(es, file) ==
    LET model_settings == ExtractModelFromSettings(file) IN
    [configured_model |-> ModelValue(model_settings["modelSelection"]),
     agent_model |-> ModelValue(model_settings["agentModelSelection"]),
     models_used |-> DictVal(TrackModelUsage(EmptyDict, es)),
     model_settings |-> DictVal(model_settings)]

(***************************************************************************)
(* ProjectMetricsCalculator (analyzers/project_metrics_calculator.py)      *)
(***************************************************************************)
\* ProjectExtractor._extract_from_path, for the path texts of the records
ProjectOfPath ==
    ("/Users/me/Projects/shop" :> "shop") @@ ("/home/me/src" :> "me") @@ ("shop/api" :> "api")

ExtractFromPath(v) ==
    IF ~Truthy(v) THEN "unknown"
    ELSE IF v.k = "str" /\ v.s \in DOMAIN ProjectOfPath THEN ProjectOfPath[v.s]
    ELSE "unknown"

\* ProjectExtractor.extract_project_name, "" standing for None; a context
\* mapping of the records holds neither workspace nor project
ExtractProjectName(entry) ==
    LET data == entry.data IN
    IF "project_name" \in DOMAIN data THEN Str(data["project_name"])
    ELSE IF "workspace_path" \in DOMAIN data THEN ExtractFromPath(data["workspace_path"])
    ELSE IF "working_directory" \in DOMAIN data
    THEN ExtractFromPath(data["working_directory"])
    ELSE IF "cwd" \in DOMAIN data THEN ExtractFromPath(data["cwd"])
    ELSE ""

\* _group_by_project: the key an entry is grouped under, and a group
ProjectKey(entry) ==
    IF ExtractProjectName(entry) = "" THEN "unknown" ELSE ExtractProjectName(entry)
ProjectEntries(es, project_name) ==
    SelectSeq(es, LAMBDA entry : ProjectKey(entry) = project_name)
Projects(es) == {ProjectKey(es[i]) : i \in 1..Len(es)}

\* _calculate_project_metrics: the calculators it runs, in this order, the
\* model calculator last
ProjectCalculators ==
    <<"RequestCountCalculator", "ResponseTimeCalculator", "CodeGenerationCalculator",
      "ToolUsageCalculator", "ActivityPatternCalculator", "CharacterCountCalculator">>

\* metrics.update(...) of each result in turn: a later key replaces an earlier one
RECURSIVE UpdateAll(_, _, _)
UpdateAll(project_metrics, names, es) ==
    IF names = <<>> THEN project_metrics
    ELSE UpdateAll(StandardResult(Head(names), es) @@ project_metrics, Tail(names), es)

CalculateProjectMetrics(es, file) ==
    ModelUsageCalculate(es, file) @@ UpdateAll(EmptyMap, ProjectCalculators, es)

\* a calculator raises on the entries of some project
ProjectMetricsRaises(es, file) ==
    \E project_name \in Projects(es) :
        \/ \E i \in 1..Len(ProjectCalculators) :
              StandardRaises(ProjectCalculators[i], ProjectEntries(es, project_name))
        \/ ModelUsageRaises(ProjectEntries(es, project_name), file)
ProjectMetricsExc(es, file) ==
    IF \E project_name \in Projects(es) :
          \/ CodeGenerationRaises(ProjectEntries(es, project_name))
          \/ CharacterCountRaises(ProjectEntries(es, project_name))
    THEN "OverflowError" ELSE "TypeError"

\* calculate: sorted(entries_by_project.keys()) is held as the set of keys
ProjectMetricsCalculate(es, file) ==
    LET by_project == [project_name \in Projects(es) |->
                        CalculateProjectMetrics(ProjectEntries(es, project_name), file)]
    IN  [projects |-> Projects(es),
         project_metrics |-> by_project,
         project_summary |->
            [project_name \in Projects(es) |->
                [total_entries |-> Len(ProjectEntries(es, project_name)),
                 total_requests |-> by_project[project_name]["total_requests"],
                 lines_of_code |-> by_project[project_name]["lines_of_code_generated"]]]]

(***************************************************************************)
(* calculate(entries), called again and again while the settings change    *)
(***************************************************************************)
MaxCalls == 2

CalculatorNames == StandardNames \cup {"ModelUsageCalculator", "ProjectMetricsCalculator"}

\* calculator.calculate(entries) of any of the eight calculators, with the
\* settings file as it is at the call
CalculateWith(name, es, file) ==
    IF name = "ModelUsageCalculator"
    THEN IF ModelUsageRaises(es, file)
         THEN [raised |-> TRUE, exc |-> "TypeError", result |-> EmptyMap]
         ELSE [raised |-> FALSE, exc |-> "", result |-> ModelUsageCalculate(es, file)]
    ELSE IF name = "ProjectMetricsCalculator"
    THEN IF ProjectMetricsRaises(es, file)
         THEN [raised |-> TRUE, exc |-> ProjectMetricsExc(es, file), result |-> EmptyMap]
         ELSE [raised |-> FALSE, exc |-> "", result |-> ProjectMetricsCalculate(es, file)]
    ELSE Calculate(Stub(name, EmptyMap), es)

ModelRecord ==
    LogEntry(Naive(0), "request",
             [model |-> StrV("claude", 6), project_name |-> StrV("shop", 4),
              response_time |-> IntV(2)])
ContextRecord ==
    LogEntry(Naive(1), "tool_invocation",
             [model |-> NoneV, context |-> ContextV("auto", 4), tool_name |-> StrV("b", 1),
              workspace_path |-> StrV("/Users/me/Projects/shop", 23)])
PathRecord ==
    LogEntry(Naive(1), "request",
             [cwd |-> StrV("shop/api", 8), ai_model |-> ListV(1), lines_generated |-> IntV(3)])

PureRecords == {ModelRecord, ContextRecord, PathRecord, RequestShape(0)}

SettingsFiles ==
    {SettingsAbsent, SettingsInvalid, SettingsNumber,
     SettingsObject("kiroAgent.modelSelection" :> "claude"),
     SettingsObject(("kiroAgent.modelSelection" :> "auto") @@
                    ("kiroAgent.agentAutonomy" :> "Supervised"))}

\* one calculator has been constructed and a record list built
InitPure ==
    /\ \E name \in CalculatorNames : calculators = <<Stub(name, EmptyMap)>>
    /\ entries \in SeqsUpTo(PureRecords, MaxEntries)
    /\ settings \in SettingsFiles
    /\ returned = <<>>
    /\ analysis_period = <<Naive(0), Naive(0)>>
    /\ aggregated = EmptyMap
    /\ idx = 0
    /\ pc = "idle"
    /\ metrics = NoMetrics
    /\ FilterIdle
    /\ JsonIdle /\ KiroIdle /\ RegistryIdle /\ ServiceIdle /\ FileIdle /\ TextIdle

\* the user, or Kiro, rewrites or removes the settings file
WriteSettings ==
    /\ \E file \in SettingsFiles \ {settings} : settings' = file
    /\ UNCHANGED <<returned, analyzeVars, filterVars, jsonVars, kiroVars, registryVars,
                   serviceVars, fileVars, textVars>>

\* calculator.calculate(entries)
CalculateCall ==
    /\ Len(returned) < MaxCalls
    /\ \E out \in {CalculateWith(calculators[1].name, entries, settings)} :
          returned' = Append(returned, [file |-> settings, out |-> out])
    /\ UNCHANGED <<settings, analyzeVars, filterVars, jsonVars, kiroVars, registryVars,
                   serviceVars, fileVars, textVars>>

NextPure == WriteSettings \/ CalculateCall

SpecPure == InitPure /\ [][NextPure]_vars

PureButForSettings ==
    \A i, j \in 1..Len(returned) :
        (calculators[1].name \in StandardNames \/ returned[i].file = returned[j].file)
            => returned[i].out = returned[j].out

\* two calls of the ModelUsageCalculator on one record, the settings file
\* created in between: the configured model differs
ConfiguredModelDiffers ==
    /\ calculators[1].name = "ModelUsageCalculator"
    /\ entries = <<ModelRecord>>
    /\ Len(returned) = 2
    /\ ~returned[1].out.raised /\ ~returned[2].out.raised
    /\ returned[1].out.result["configured_model"] = NoneVal
    /\ returned[2].out.result["configured_model"] = TextVal("claude")

(***************************************************************************)
(* The date-range filter under aware and naive timestamps and bounds       *)
(***************************************************************************)
\* entries and both bounds each naive or aware, in any zone
InitMixed ==
    /\ log_entries \in SeqsUpTo(FilterEntries, MaxEntries)
    /\ start_date \in Datetimes
    /\ end_date \in Datetimes
    /\ filtered_entries = <<>>
    /\ cli_pc = "parsed"
    /\ AnalyzeIdle
    /\ ParserIdle

SpecMixed == InitMixed /\ [][NextFilter]_vars

\* the instant a datetime denotes once converted to UTC, in ticks
UtcTicks(dt) == dt.wall - dt.utcoffset * TicksPerHour

\* the record's wall-clock time lies in [start, end], bounds by wall clock too
WallClockInRange(e) ==
    start_date.wall <= e.timestamp.wall /\ e.timestamp.wall <= end_date.wall

\* the record's instant lies between the instants of the bounds
InstantInRange(e) ==
    UtcTicks(start_date) <= UtcTicks(e.timestamp) /\ UtcTicks(e.timestamp) <= UtcTicks(end_date)

\* C24: filter_by_date_range never fails on a mix of timezone-aware and naive
\* timestamps or bounds, and an aware timestamp is compared by its wall-clock
\* fields with the offset dropped: a record is included exactly when its
\* wall-clock time lies in [start, end], whatever its offset.
C24_OffsetDropped ==
    /\ cli_pc # "raised"
    /\ cli_pc = "filtered" =>
          /\ filtered_entries = SelectSeq(log_entries, WallClockInRange)
          /\ \A i \in 1..Len(log_entries) :
                InList(log_entries[i], filtered_entries) <=> WallClockInRange(log_entries[i])

\* C24 witness: a naive bound and an aware bound, an aware record kept whose
\* instant lies outside the instants of the bounds, and an aware record
\* dropped whose instant lies between them.
C24_Witness ==
    /\ cli_pc = "filtered"
    /\ start_date.aware # end_date.aware
    /\ \E i, j \in 1..Len(log_entries) :
          /\ log_entries[i].timestamp.aware /\ log_entries[i].timestamp.utcoffset # 0
          /\ InList(log_entries[i], filtered_entries) /\ ~InstantInRange(log_entries[i])
          /\ log_entries[j].timestamp.aware
          /\ ~InList(log_entries[j], filtered_entries) /\ InstantInRange(log_entries[j])
(***************************************************************************)
(* Numeric timestamps of JSON lines                                        *)
(***************************************************************************)
\* the aliases of the line that hold a number
NumericAliases(line) ==
    {i \in 1..Len(timestamp_fields) :
        /\ timestamp_fields[i] \in DOMAIN line.fields
        /\ line.fields[timestamp_fields[i]].k = "int"}

\* the aliases of the line that hold a text datetime.fromisoformat accepts
IsoAliases(line) ==
    {i \in 1..Len(timestamp_fields) :
        /\ timestamp_fields[i] \in DOMAIN line.fields
        /\ line.fields[timestamp_fields[i]].k = "str"
        /\ line.fields[timestamp_fields[i]].s \in DOMAIN IsoFormat}

\* the line's timestamp can only come from one numeric value
NumericOnly(line) ==
    /\ line.shape = "json" /\ line.kind = "object"
    /\ Cardinality(NumericAliases(line)) = 1
    /\ IsoAliases(line) = {}

NumericValue(line) ==
    line.fields[timestamp_fields[CHOOSE i \in NumericAliases(line) : TRUE]].n

\* the Unix time, in seconds, the claim gives the value v
UnixSeconds(v) == IF v <= MsThreshold THEN v ELSE v \div MsPerSecond

\* the local times of a Unix time in the zones of the model
LocalTimes(seconds) == {Naive(seconds + tz) : tz \in Offsets}

\* C25: a numeric timestamp value v of a JSON line is taken as Unix seconds
\* when v <= the threshold (1e10) and as milliseconds (v / 1000 seconds) when
\* v > the threshold; the value exactly at the threshold is seconds.
C25_SecondsOrMilliseconds ==
    \A i \in 1..Len(yielded) :
        LET line == yielded[i].raw_line IN
        NumericOnly(line) =>
            /\ yielded[i].timestamp \in LocalTimes(UnixSeconds(NumericValue(line)))
            /\ NumericValue(line) = MsThreshold =>
                  yielded[i].timestamp \in LocalTimes(MsThreshold)

\* C25 witness: a file with the value at the threshold, a value above it and
\* a value below it has been read; the three records carry the threshold as
\* seconds, the thousandth of the larger value and the smaller value.
C25_Witness ==
    /\ json_pc = "done"
    /\ json_file = <<BoundaryLine, MillisLine, UnixLine>>
    /\ Len(yielded) = 3
    /\ yielded[1].timestamp \in LocalTimes(MsThreshold)
    /\ yielded[2].timestamp \in LocalTimes(3)
    /\ yielded[3].timestamp \in LocalTimes(2)
(***************************************************************************)
(* analyze on records that carry generated lines and languages             *)
(***************************************************************************)
LinesRecord(lines, language) ==
    LogEntry(Naive(0), "tool_invocation", [lines_generated |-> lines, language |-> language])
NoLanguageRecord == LogEntry(Naive(0), "response", [lines_generated |-> StrV("2", 1)])
NoLinesRecord == LogEntry(Naive(1), "request", [language |-> StrV("python", 6)])

LinesPool ==
    {LinesRecord(IntV(3), StrV("python", 6)), LinesRecord(IntV(1), NoneV),
     LinesRecord(IntV(2), IntV(5)), LinesRecord(IntV(2), ListV(1)),
     LinesRecord(IntV(0 - 1), StrV("python", 6)), LinesRecord(NoneV, StrV("go", 2)),
     NoLanguageRecord, NoLinesRecord}

InitLines ==
    /\ calculators = <<Stub("CodeGenerationCalculator", EmptyMap)>>
    /\ entries \in SeqsUpTo(LinesPool, MaxRecords)
    /\ analysis_period = <<Naive(0), Naive(1)>>
    /\ aggregated = EmptyMap
    /\ idx = 0
    /\ pc = "idle"
    /\ metrics = NoMetrics
    /\ FilterIdle
    /\ ParserIdle

SpecLines == InitLines /\ [][NextAnalyze]_vars

\* the records whose lines_generated is a positive count
Generating ==
    {i \in 1..Len(entries) :
        /\ "lines_generated" \in DOMAIN entries[i].data
        /\ Converts(entries[i].data["lines_generated"])
        /\ Converted(entries[i].data["lines_generated"]) > 0}

\* the language of a record: its language field, or "unknown" when absent
LanguageOf(i) == DataGet(entries[i].data, "language", StrV("unknown", 7))

RECURSIVE SumLines(_)
SumLines(S) ==
    IF S = {} THEN 0
    ELSE LET i == CHOOSE x \in S : TRUE
         IN Converted(entries[i].data["lines_generated"]) + SumLines(S \ {i})

LinesOfCode == metrics["lines_of_code_generated"]
LinesByLanguage == metrics["lines_by_language"]

\* the total is the sum of the values of lines_by_language
TotalIsSumOfLanguages ==
    /\ IsDict(LinesByLanguage)
    /\ LinesOfCode = Scalar(SumCounts(LinesByLanguage.d, DOMAIN LinesByLanguage.d))

\* every positive count is under the key of its record's language
EachUnderItsLanguage ==
    /\ LinesOfCode = Scalar(SumLines(Generating))
    /\ \A i \in Generating :
          /\ DictKey(LanguageOf(i)) \in DOMAIN LinesByLanguage.d
          /\ LinesByLanguage.d[DictKey(LanguageOf(i))] =
                Num(SumLines({j \in Generating : DictKey(LanguageOf(j)) = DictKey(LanguageOf(i))}))

\* C26: for every record sequence, lines_of_code_generated equals the sum of
\* the values of lines_by_language: every positive lines_generated added to
\* the total is added to exactly one language key (the record's language, or
\* "unknown" when absent), also when the language is null or not a string.
C26_TotalIsSumByLanguage == pc = "done" => (TotalIsSumOfLanguages /\ EachUnderItsLanguage)

\* the total is the sum over the languages whenever every language can be a
\* dictionary key; the total is the sum of the positive counts in any case
SumByLanguageUnlessUnhashable ==
    pc = "done" =>
        /\ LinesOfCode = Scalar(SumLines(Generating))
        /\ (\A i \in Generating : Hashable(LanguageOf(i))) =>
              (TotalIsSumOfLanguages /\ EachUnderItsLanguage)

\* two lines under a language that is a list, one under a null language: the
\* total is 3 and the languages hold 1
LinesUncategorized ==
    /\ pc = "done"
    /\ entries = <<LinesRecord(IntV(2), ListV(1)), LinesRecord(IntV(1), NoneV)>>
    /\ LinesOfCode = Scalar(3)
    /\ LinesByLanguage = DictVal("None" :> Num(1))
(***************************************************************************)
(* The tool markers in the text of a Kiro message                          *)
(***************************************************************************)
MaxWords == 2

\* a text is the sequence of its characters
ToolUseMarker == <<"t", "o", "o", "l", "U", "s", "e">>
ToolUsesKey == <<"t", "o", "o", "l", "U", "s", "e", "s">>

\* needle in text
Contains(text, needle) ==
    \E i \in 1..(Len(text) - Len(needle) + 1) :
        SubSeq(text, i, i + Len(needle) - 1) = needle

\* the words the texts are made of
Words ==
    {ToolUseMarker, ToolUsesKey, <<"t", "o", "o", "l">>, <<"U", "s", "e", "s">>,
     <<"U", "s", "e">>, <<" ">>}

RECURSIVE Concat(_)
Concat(ws) == IF ws = <<>> THEN <<>> ELSE Head(ws) \o Concat(Tail(ws))

\* the text of a message: its words, then its payload as it is written; a
\* key written plainly is in the text, a key written with \u escapes is not
MessageText(ws, payload, escaped) ==
    Concat(ws) \o
    (IF payload.braces = "object" /\ payload.toolUses # "absent"
     THEN (IF escaped THEN <<"{", "\\", "u", "}">> ELSE <<"{">> \o ToolUsesKey \o <<"}">>)
     ELSE IF payload.braces = "none" THEN <<>> ELSE <<"{", "}">>)

\* a message by its text: the two tool markers are searched in the text
MessageOf(text, agent, triggered, action, payload) ==
    [agent_controller |-> agent, triggered |-> triggered, autonomy |-> "",
     tool_action |-> action, toolUse |-> Contains(text, ToolUseMarker),
     toolUses |-> Contains(text, ToolUsesKey), terminal |-> FALSE, executing |-> FALSE,
     user_input |-> FALSE, llm_command |-> FALSE, payload |-> payload, text |-> text]

MarkerLines ==
    {KiroLine("2025-11-19 23:03:58.159", "info",
              MessageOf(MessageText(ws, payload, escaped), agent, triggered, action, payload)) :
        ws \in SeqsUpTo(Words, MaxWords), payload \in Payloads, escaped \in BOOLEAN,
        agent \in BOOLEAN, triggered \in BOOLEAN, action \in BOOLEAN}

InitMarkers ==
    /\ kiro_line \in MarkerLines
    /\ kiro_entry = <<>>
    /\ kiro_pc = "line"
    /\ JsonIdle /\ RegistryIdle /\ ServiceIdle /\ FileIdle /\ TextIdle /\ EnvIdle
    /\ AnalyzeIdle /\ FilterIdle

SpecMarkers == InitMarkers /\ [][NextKiro]_vars

\* the message of the line contains 'toolUses', in its words or as a key of
\* its payload
HasToolUses == Contains(kiro_line.message.text, ToolUsesKey)

\* C27: in the Kiro parser every message that contains 'toolUses' (as text or
\* as a key of the embedded JSON) also contains 'toolUse', so its entry has
\* the tool_invocation flag and its event type is conversation_start,
\* agent_event or tool_invocation: never assistant_response, even when a
\* conversation id was found.
C27_ToolUsesIsToolInvocation ==
    HasToolUses =>
        /\ Contains(kiro_line.message.text, ToolUseMarker)
        /\ kiro_pc = "entry" =>
              /\ "tool_invocation" \in DOMAIN kiro_entry[1].data
              /\ kiro_entry[1].data["tool_invocation"] = BoolV(TRUE)
              /\ kiro_entry[1].event_type \in
                    {"conversation_start", "agent_event", "tool_invocation"}
              /\ kiro_entry[1].event_type # "assistant_response"

\* C27 witness: a message whose payload has a conversation id and named
\* toolUses, the key written plainly and no other marker in the text, gives
\* a tool_invocation.
C27_Witness ==
    /\ kiro_pc = "entry"
    /\ HasToolUses
    /\ kiro_line.message.text = <<"{">> \o ToolUsesKey \o <<"}">>
    /\ ~kiro_line.message.tool_action
    /\ kiro_line.message.payload = ObjectPayload(TRUE, "absent", "named")
    /\ "conversation_id" \in DOMAIN kiro_entry[1].data
    /\ kiro_entry[1].event_type = "tool_invocation"

\* assistant_response is produced only for a message without 'toolUses' in
\* its text: the key is written with escapes
AssistantResponseOnlyEscaped ==
    (kiro_pc = "entry" /\ kiro_entry[1].event_type = "assistant_response") =>
        /\ ~HasToolUses
        /\ kiro_line.message.payload.toolUses = "named"
(***************************************************************************)
(* analyze under the permutations of the calculator list                   *)
(***************************************************************************)
\* calculators that emit keyed counters, scalars, a value that is not a
\* number under a sub-key, and one that raises
OrderPool ==
    {c \in CalculatorPool :
        c.name \in {"ToolsA", "ToolsAB", "Daily", "ModelUsage", "Calculator3",
                    "PartialCalculator", "BrokenCalculator"}}

InitOrders ==
    /\ calculators \in SeqsUpTo(OrderPool, MaxCalcs)
    /\ entries = <<>>
    /\ analysis_period = <<Naive(0), Naive(1)>>
    /\ aggregated = EmptyMap
    /\ idx = 0
    /\ pc = "idle"
    /\ metrics = NoMetrics
    /\ FilterIdle
    /\ ParserIdle

SpecOrders == InitOrders /\ [][NextAnalyze]_vars

\* the mappings the calculators of a list return, in order, those that
\* raise left out
RECURSIVE ResultsOf(_, _)
ResultsOf(calcs, es) ==
    IF calcs = <<>> THEN <<>>
    ELSE (IF Raises(Head(calcs), es) THEN <<>> ELSE <<ResultOf(Head(calcs), es)>>)
         \o ResultsOf(Tail(calcs), es)

\* the Metrics Record analyze returns for a calculator list
AnalyzeOf(calcs, es, period) ==
    ProductivityMetrics(period, MergeAll(SeedAggregated, ResultsOf(calcs, es)))

\* the orders of the calculator list
Orders ==
    {p \in [1..Len(calculators) -> 1..Len(calculators)] :
        \A i, j \in 1..Len(calculators) : p[i] = p[j] => i = j}
Reordered(p) == [i \in 1..Len(calculators) |-> calculators[p[i]]]
RecordIn(p) == AnalyzeOf(Reordered(p), entries, analysis_period)

\* a keyed counter with integer values
IntegerCounter(v) == IsDict(v) /\ \A s \in DOMAIN v.d : v.d[s].num

\* every mapping returned holds keyed counters with integer values only
OnlyIntegerCounters ==
    \A i \in 1..Len(calculators) :
        Succeeded(i) => \A k \in DOMAIN Returned(i) : IntegerCounter(Returned(i)[k])

\* two calculators emit the same key, and one of them a scalar or a list
SharedScalarOrListKey ==
    \E i, j \in 1..Len(calculators) :
        /\ i # j
        /\ \E k \in DeclaredFields \cup {"configured_model"} :
              /\ Emitted(i, k) /\ Emitted(j, k)
              /\ ~IsDict(Returned(i)[k]) \/ ~IsDict(Returned(j)[k])

\* two calculators emit keyed counters under the same key that share a
\* sub-key, and one of the two values under it is not an integer
SharedNonIntegerSubKey ==
    \E i, j \in 1..Len(calculators) :
        /\ i # j
        /\ \E k \in DeclaredFields \cup {"configured_model"} :
              /\ Emitted(i, k) /\ Emitted(j, k)
              /\ IsDict(Returned(i)[k]) /\ IsDict(Returned(j)[k])
              /\ \E s \in DOMAIN Returned(i)[k].d \cap DOMAIN Returned(j)[k].d :
                    ~Returned(i)[k].d[s].num \/ ~Returned(j)[k].d[s].num

\* every order gives the record analyze returned
SameInEveryOrder == \A p \in Orders : RecordIn(p) = metrics

\* C28: merging is order-independent for keyed counters and order-dependent
\* only for scalars and lists: when the partial results hold only keyed
\* counters with integer values every permutation of the calculator list
\* gives the same Metrics Record, and two orders give different records only
\* if two calculators emit the same scalar- or list-valued key.
C28_OrderMattersOnlyForScalars ==
    pc = "done" =>
        /\ OnlyIntegerCounters => SameInEveryOrder
        /\ ~SameInEveryOrder => SharedScalarOrListKey

\* C28 as amended: two orders give different records only if two calculators
\* emit the same key and one of them a scalar or a list, or keyed counters
\* that share a sub-key under which one holds a value that is not an integer.
C28_OrderMattersOnlyOnConflict ==
    pc = "done" =>
        /\ OnlyIntegerCounters => SameInEveryOrder
        /\ ~SameInEveryOrder => (SharedScalarOrListKey \/ SharedNonIntegerSubKey)

\* C28 witness: {a: 5}, {a: 2, b: 3} and {d1: 4} in this order give a: 7,
\* b: 3 and d1: 4, and so do the five other orders.
C28_Witness ==
    /\ pc = "done"
    /\ Len(calculators) = 3
    /\ calculators[1].name = "ToolsA"
    /\ calculators[2].name = "ToolsAB"
    /\ calculators[3].name = "Daily"
    /\ OnlyIntegerCounters
    /\ Cardinality(Orders) = 6
    /\ SameInEveryOrder
    /\ metrics["tool_usage"] = DictVal([a |-> Num(7), b |-> Num(3)])
    /\ metrics["daily_breakdown"] = DictVal([d1 |-> Num(4)])

\* {d1: 4} after a d1 that is not a number gives 4, the other order gives
\* the value that is not a number; no scalar or list key is shared
OrderMattersForCounter ==
    /\ pc = "done"
    /\ Len(calculators) = 2
    /\ calculators[1].name = "ModelUsage"
    /\ calculators[2].name = "Daily"
    /\ ~SharedScalarOrListKey
    /\ metrics["daily_breakdown"] = DictVal([d1 |-> Num(4)])
    /\ RecordIn([i \in 1..2 |-> 3 - i])["daily_breakdown"] = DictVal([d1 |-> NonNum])
(***************************************************************************)
(* The date-range filter as a selection                                    *)
(***************************************************************************)
\* sub is a subsequence of es: its records are records of es at strictly
\* increasing positions
IsSubsequence(sub, es) ==
    \E f \in [1..Len(sub) -> 1..Len(es)] :
        /\ \A i \in 1..Len(sub) : sub[i] = es[f[i]]
        /\ \A i, j \in 1..Len(sub) : i < j => f[i] < f[j]

\* start > end, once the offsets are dropped
EmptyRange == DropTz(start_date).wall > DropTz(end_date).wall

\* C29: filter_by_date_range returns a subsequence of its input (the same
\* records, each at most once, in their original order, none added or
\* altered); filtering the result again with the same bounds returns the
\* same sequence; and when start > end the result is empty.
C29_FilterSelects ==
    cli_pc = "filtered" =>
        /\ IsSubsequence(filtered_entries, log_entries)
        /\ FilterByDateRange(filtered_entries, start_date, end_date) = filtered_entries
        /\ EmptyRange => filtered_entries = <<>>

\* C29 witness: two different records, the later one first, both inside the
\* range, are returned in the order of the input.
C29_Witness ==
    /\ cli_pc = "filtered"
    /\ Len(log_entries) = 2
    /\ log_entries[1].timestamp.wall > log_entries[2].timestamp.wall
    /\ filtered_entries = log_entries
    /\ FilterByDateRange(filtered_entries, start_date, end_date) = log_entries

\* C29 witness: start after end, records between them, nothing returned.
EmptyRangeReached ==
    /\ cli_pc = "filtered"
    /\ EmptyRange
    /\ Len(log_entries) = 2
    /\ \A i \in 1..2 : log_entries[i].timestamp.wall = end_date.wall
    /\ filtered_entries = <<>>
(***************************************************************************)
(* analyze with calculators that emit undeclared keys                      *)
(***************************************************************************)
UndeclaredEntries == <<ModelRecord, ContextRecord>>

\* the ModelUsageCalculator on the entries, under a settings file
ModelUsageStub(file) ==
    Stub("ModelUsageCalculator", ModelUsageCalculate(UndeclaredEntries, file))

UndeclaredPool ==
    {ModelUsageStub(SettingsAbsent),
     ModelUsageStub(SettingsObject("kiroAgent.modelSelection" :> "claude"))} \cup
    {c \in CalculatorPool :
        c.name \in {"RequestCountCalculator", "ModelUsage", "Daily", "PartialCalculator",
                    "BrokenCalculator"}}

InitUndeclared ==
    /\ calculators \in SeqsUpTo(UndeclaredPool, MaxCalcs)
    /\ entries = UndeclaredEntries
    /\ analysis_period = <<Naive(0), Naive(1)>>
    /\ aggregated = EmptyMap
    /\ idx = 0
    /\ pc = "idle"
    /\ metrics = NoMetrics
    /\ FilterIdle
    /\ ParserIdle

SpecUndeclared == InitUndeclared /\ [][NextAnalyze]_vars

\* the keys outside the declared fields that the calculators run so far emitted
UndeclaredEmitted ==
    UNION {DOMAIN Returned(i) \ DeclaredFields : i \in {j \in 1..Ran : Succeeded(j)}}

\* the mappings with their undeclared keys left out
DeclaredOnly(results) ==
    [i \in 1..Len(results) |->
        [k \in DOMAIN results[i] \cap DeclaredFields |-> results[i][k]]]

\* C30: a key that is not one of the twelve declared fields (configured_model,
\* models_used) is inserted in the aggregate but never appears in the Metrics
\* Record and does not change a declared field: the record's field set is
\* the same for every calculator list.
C30_UndeclaredKeysDropped ==
    /\ pc \in {"loop", "done"} => UndeclaredEmitted \subseteq DOMAIN aggregated
    /\ pc = "done" =>
          /\ DOMAIN metrics = DeclaredFields \cup {"analysis_period"}
          /\ metrics = ProductivityMetrics(analysis_period,
                           MergeAll(SeedAggregated, DeclaredOnly(ReturnedBy(Len(calculators)))))

\* C30 witness: the request counter and the model usage calculator have run;
\* configured_model and models_used are in the aggregate, not in the record,
\* and the two requests are counted.
C30_Witness ==
    /\ pc = "done"
    /\ Len(calculators) = 2
    /\ calculators[1].name = "RequestCountCalculator"
    /\ calculators[2].name = "ModelUsageCalculator"
    /\ aggregated["configured_model"] = TextVal("claude")
    /\ "models_used" \in DOMAIN aggregated
    /\ {"configured_model", "models_used"} \cap DOMAIN metrics = {}
    /\ Cardinality(DOMAIN metrics) = Cardinality(DeclaredFields) + 1
    /\ metrics["total_requests"] # Scalar(0)
====
